---- MODULE Spec2Model ----
(***************************************************************************)
(* Booking lifecycle, availability and payment reconciliation of the car   *)
(* rental backends:                                                        *)
(*   - the Razorpay variant        (src/server.js),                        *)
(*   - the cart variant            (src/unnamed/part_001, lines 1-1370),   *)
(*   - the tiered PhonePe variant  (src/unnamed/part_001, lines 1373-).    *)
(* The database collections are the state; every route handler is one      *)
(* action.  For the interleaving properties a handler is split at its      *)
(* first await (the load of the document) and the remainder runs on the    *)
(* loaded snapshot, as a mongoose document does.                           *)
(***************************************************************************)
EXTENDS Integers, Sequences, FiniteSets, Bags, TLC

VARIABLES cars,           \* Car collection: car id -> document
          bookings,       \* Booking collection: sequence, _id = index
          notifications,  \* Notification collection: bag of documents
          carts,          \* Cart collection (cart variant): sequence of items
          now,            \* the server clock, in ms
          notificationFault, \* whether Notification.save() rejects
          gwRefunds,      \* refund requests handed to the payment gateway
          gwOrders,       \* orders at the payment gateway: sequence, id = index
          reqs,           \* requests split at their await points
          res             \* the response of the last finished request

vars == <<cars, bookings, notifications, carts, now, notificationFault, gwRefunds, gwOrders,
          reqs, res>>

----------------------------------------------------------------------------
(* Bounds of the model *)

MaxBookings == 1          \* bookings submitted (Spec, SpecClock, SpecRace)
MaxOrders == 1            \* gateway orders created
MaxNotifications == 5     \* notifications stored: one lifecycle needs five
MaxTicks == 1             \* clock ticks (SpecClock)
MaxRequests == 2          \* requests in flight at once (SpecRace, SpecCartRace)
RaceNotifications == 6    \* notifications stored in SpecRace
MaxCartBookings == 2      \* bookings of the cart variant (SpecCart, SpecCartRace)
TwoBookings == 2          \* the same three bounds for SpecTwo
TwoOrders == 2
TwoNotifications == 6

(* Program constants *)

HourMs == 3600000
DeliveryFlatFee == 500
DeliveryMaxDistance == 5
LateHourlyRate == 100
DurationUnit == 12
DepositPremium == 35000
DepositNormal == 25000

(* Absent values (undefined / null), one per type *)

NoTime == -1
NoNum == -1
NoStr == "none"
Undefined == "undefined"

\* Not-a-Number, the result of a failed numeric conversion
NaN == NoNum

----------------------------------------------------------------------------
(* Users, cars and request inputs *)

Customers == {"alice", "bob"}
CarIds == {"c1"}

RzpCars == [c \in CarIds |->
              [name |-> c, type |-> "normal", pricePerHour |-> 250,
               available |-> TRUE]]

KeySecret == "RAZORPAY_KEY_SECRET"
WebhookSecret == "RAZORPAY_WEBHOOK_SECRET"
ForgedSecret == "guessed_secret"

----------------------------------------------------------------------------
(* JavaScript arithmetic *)

\* a remainder that is always 0: every duration passes the multiple-of-12 check
JsRem_Zero(a, b) == 0

\* a % b of JavaScript: the result takes the sign of the dividend
JsRem(a, b) == IF a >= 0 THEN a % b ELSE 0 - ((0 - a) % b)

\* Math.ceil(a / b) for b > 0
CeilDiv(a, b) == IF a >= 0 THEN (a + b - 1) \div b ELSE 0 - ((0 - a) \div b)

\* truthiness of a form field (a string, or undefined)
Truthy(s) == s \notin {Undefined, ""}

----------------------------------------------------------------------------
(* Helper functions of src/server.js *)

calculateDeposit(carType) ==
  IF carType = "premium" THEN DepositPremium ELSE DepositNormal

\* deliveryDistance is NoNum when the field is absent: undefined <= 5 is false
DistanceWithin(deliveryDistance) ==
  deliveryDistance # NoNum /\ deliveryDistance <= DeliveryMaxDistance

calculatePrice(car, duration, homeDelivery, deliveryDistance) ==
  LET price == car.pricePerHour * duration
  IN  IF Truthy(homeDelivery) /\ DistanceWithin(deliveryDistance)
      THEN price + DeliveryFlatFee ELSE price

\* calculateLateReturnFee charging completed hours only
calculateLateReturnFee_WholeHours(scheduledEndTime, actualReturnTime, hourlyRate) ==
  IF actualReturnTime <= scheduledEndTime THEN 0
  ELSE ((actualReturnTime - scheduledEndTime) \div HourMs) * hourlyRate

calculateLateReturnFee(scheduledEndTime, actualReturnTime, hourlyRate) ==
  IF actualReturnTime <= scheduledEndTime THEN 0
  ELSE LET lateMs == actualReturnTime - scheduledEndTime
           lateHours == CeilDiv(lateMs, HourMs)
       IN  lateHours * hourlyRate

Notification(userId, message, bookingId, type) ==
  [userId |-> userId, bookingId |-> bookingId, message |-> message,
   type |-> type]

\* a notification saved twice
createNotification_Twice(userId, message, bookingId, type) ==
  notifications' = notifications (+) SetToBag({Notification(userId, message, bookingId, type)})
                                 (+) SetToBag({Notification(userId, message, bookingId, type)})

\* a save that never rejects
createNotification_Unfailing(userId, message, bookingId, type) ==
  notifications' = notifications (+) SetToBag({Notification(userId, message, bookingId, type)})

\* a rejected save is caught and logged: the collection stays as it is
createNotification(userId, message, bookingId, type) ==
  notifications' =
    IF notificationFault THEN notifications
    ELSE notifications (+) SetToBag({Notification(userId, message, bookingId, type)})

----------------------------------------------------------------------------
(* The object-document mapper *)

\* Model.findById: a sequence of zero or one documents
findById(id) == IF id \in DOMAIN bookings THEN <<bookings[id]>> ELSE <<>>

\* a save that never writes depositStatus
ModifiedPaths_WithoutDeposit(cur, snap, doc) ==
  [f \in DOMAIN cur |-> IF f # "depositStatus" /\ doc[f] # snap[f] THEN doc[f] ELSE cur[f]]

\* document.save() of a loaded document: writes the modified paths only
ModifiedPaths(cur, snap, doc) ==
  [f \in DOMAIN cur |-> IF doc[f] # snap[f] THEN doc[f] ELSE cur[f]]

save(id, snap, doc) ==
  bookings' = [bookings EXCEPT ![id] = ModifiedPaths(@, snap, doc)]

\* an update that leaves the car available whatever the flag
setAvailable_Ignored(carId, flag) ==
  cars' = [cars EXCEPT ![carId].available = TRUE]

\* an update that holds a car but never releases it
setAvailable_NeverReleased(carId, flag) ==
  cars' = IF flag THEN cars ELSE [cars EXCEPT ![carId].available = FALSE]

\* Car.findByIdAndUpdate(carId, { available: flag })
\* findByIdAndUpdate writing the opposite flag
setAvailable_Inverted(carId, flag) ==
  cars' = [cars EXCEPT ![carId].available = ~flag]

setAvailable(carId, flag) ==
  cars' = [cars EXCEPT ![carId].available = flag]

Respond(status, body) == res' = [status |-> status, body |-> body]

----------------------------------------------------------------------------
(* The payment gateway (Razorpay): orders, payments, signatures *)

OrderId(n) == <<"order", n>>
PaymentId(n) == <<"pay", n>>
FailedPaymentId(n) == <<"pay_failed", n>>

\* HMAC-SHA256 of the data under a secret, as a hex digest
Hmac(secret, data) == <<"hmac", secret, data>>

\* razorpayInstance.orders.create(options): the order carries the notes
GatewayOrder(bookingId, amount) ==
  [bookingId |-> bookingId, amount |-> amount, paid |-> FALSE, failed |-> FALSE]

\* the customer pays order n in the gateway's checkout
Gw_Pay(n) ==
  /\ n \in DOMAIN gwOrders
  /\ ~gwOrders[n].paid
  /\ gwOrders' = [gwOrders EXCEPT ![n].paid = TRUE]
  /\ UNCHANGED <<cars, bookings, notifications, carts, now, notificationFault, gwRefunds, reqs, res>>

\* a payment attempt on order n fails in the gateway's checkout
Gw_Fail(n) ==
  /\ n \in DOMAIN gwOrders
  /\ ~gwOrders[n].failed
  /\ gwOrders' = [gwOrders EXCEPT ![n].failed = TRUE]
  /\ UNCHANGED <<cars, bookings, notifications, carts, now, notificationFault, gwRefunds, reqs, res>>

\* what the checkout hands to the customer after a successful payment
CheckoutResults ==
  {[razorpay_order_id |-> OrderId(n), razorpay_payment_id |-> PaymentId(n),
    razorpay_signature |-> Hmac(KeySecret, <<OrderId(n), "|", PaymentId(n)>>)] :
     n \in {m \in DOMAIN gwOrders : gwOrders[m].paid}}

\* the events the gateway has emitted, as webhook bodies
PaymentEntity(id, n) ==
  [id |-> id, amount |-> gwOrders[n].amount,
   notes |-> [bookingId |-> gwOrders[n].bookingId]]

GatewayEvents ==
  {[event |-> "payment.authorized", entity |-> PaymentEntity(PaymentId(n), n)] :
     n \in {m \in DOMAIN gwOrders : gwOrders[m].paid}}
  \cup
  {[event |-> "payment.captured", entity |-> PaymentEntity(PaymentId(n), n)] :
     n \in {m \in DOMAIN gwOrders : gwOrders[m].paid}}
  \cup
  {[event |-> "payment.failed", entity |-> PaymentEntity(FailedPaymentId(n), n)] :
     n \in {m \in DOMAIN gwOrders : gwOrders[m].failed}}

----------------------------------------------------------------------------
(* Razorpay variant: schema *)

RzpBooking(u, carId, window, depositAmount, delivery, basePrice) ==
  [ _id |-> Len(bookings) + 1,
    customerId |-> u, carId |-> carId,
    startTime |-> window.start, duration |-> window.duration,
    endTime |-> window.end,
    depositAmount |-> depositAmount, depositStatus |-> "pending",
    homeDelivery |-> delivery.homeDelivery,
    deliveryDistance |-> delivery.deliveryDistance,
    deliveryFee |-> delivery.deliveryFee,
    vehicleName |-> NoStr, vehicleNumber |-> NoStr,
    startOdometer |-> NoNum, endOdometer |-> NoNum,
    basePrice |-> basePrice, lateReturnFee |-> 0, totalPrice |-> basePrice,
    status |-> "pending", adminNotes |-> NoStr,
    paymentStatus |-> "pending",
    razorpayOrderId |-> <<>>, razorpayPaymentId |-> <<>>,
    razorpaySignature |-> <<>>, paymentDate |-> NoTime,
    actualReturnTime |-> NoTime, lateHours |-> 0,
    createdAt |-> now, updatedAt |-> now ]

----------------------------------------------------------------------------
(* Razorpay variant: POST /api/bookings *)
(* body: carId, startTime, duration, docsPresent (the three uploads),      *)
(*       homeDelivery (form string or Undefined), deliveryDistance         *)

(* duration reaches the handler as a form text and is converted twice:     *)
(* ToNumber by duration % 12 and duration * 60 * 60 * 1000, parseInt for   *)
(* the stored field. durationNumber and durationInt are the two results.   *)

Rzp_SubmitOn(u, body, durationNumber, durationInt) ==
  /\ UNCHANGED <<cars, carts, now, notificationFault, gwRefunds, gwOrders, reqs>>
  /\ IF durationNumber = NaN \/ JsRem(durationNumber, DurationUnit) # 0
     THEN /\ Respond(400, "Duration must be in multiples of 12 hours")
          /\ UNCHANGED <<bookings, notifications>>
     ELSE IF body.carId \notin DOMAIN cars
     THEN /\ Respond(404, "Car not found")
          /\ UNCHANGED <<bookings, notifications>>
     ELSE IF ~cars[body.carId].available
     THEN /\ Respond(400, "Car is not available")
          /\ UNCHANGED <<bookings, notifications>>
     ELSE IF ~body.docsPresent
     THEN /\ Respond(400, "All documents are required")
          /\ UNCHANGED <<bookings, notifications>>
     ELSE IF \/ Truthy(body.homeDelivery) /\ body.deliveryDistance = NoNum
             \/ durationInt = NaN
     THEN \* parseFloat(undefined), parseInt(''): NaN fails the Number cast in save()
          /\ Respond(500, "Cast to Number failed")
          /\ UNCHANGED <<bookings, notifications>>
     ELSE LET car == cars[body.carId]
              window == [start |-> body.startTime, duration |-> durationInt,
                         end |-> body.startTime + durationNumber * HourMs]
              delivery ==
                [homeDelivery |-> body.homeDelivery = "true",
                 deliveryDistance |->
                   IF Truthy(body.homeDelivery) THEN body.deliveryDistance ELSE 0,
                 deliveryFee |->
                   IF Truthy(body.homeDelivery) /\ DistanceWithin(body.deliveryDistance)
                   THEN DeliveryFlatFee ELSE 0]
              basePrice == calculatePrice(car, durationNumber, body.homeDelivery,
                                          body.deliveryDistance)
              booking == RzpBooking(u, body.carId, window,
                                    calculateDeposit(car.type), delivery, basePrice)
          IN  /\ bookings' = Append(bookings, booking)
              /\ createNotification(u, <<"submitted">>, booking._id, "booking_update")
              /\ Respond(201, "Booking submitted successfully")

\* a duration field of decimal digits, held as the number it denotes: both
\* conversions give that number
Rzp_Submit(u, body) == Rzp_SubmitOn(u, body, body.duration, body.duration)

----------------------------------------------------------------------------
(* Razorpay variant: PUT /api/bookings/:id/review *)

Rzp_ReviewRejected(booking) == booking.status # "pending"

Rzp_ReviewOn(doc, id, action, adminNotes) ==
  /\ UNCHANGED <<carts, now, notificationFault, gwRefunds, gwOrders>>
  /\ IF doc = <<>>
     THEN /\ Respond(404, "Booking not found")
          /\ UNCHANGED <<cars, bookings, notifications>>
     ELSE LET booking == doc[1] IN
     IF Rzp_ReviewRejected(booking)
     THEN /\ Respond(400, "Booking has already been reviewed")
          /\ UNCHANGED <<cars, bookings, notifications>>
     ELSE IF action = "accept"
     THEN /\ createNotification(booking.customerId, <<"accepted">>, id, "booking_update")
          /\ save(id, booking, [booking EXCEPT !.status = "payment_pending",
                                               !.adminNotes = adminNotes])
          /\ Respond(200, "Booking accepted")
          /\ UNCHANGED cars
     ELSE IF action = "decline"
     THEN /\ setAvailable(booking.carId, TRUE)
          /\ createNotification(booking.customerId, <<"declined">>, id, "booking_update")
          /\ save(id, booking, [booking EXCEPT !.status = "declined",
                                               !.adminNotes = adminNotes])
          /\ Respond(200, "Booking declined")
     ELSE /\ Respond(400, "Invalid action")
          /\ UNCHANGED <<cars, bookings, notifications>>

Rzp_Review(id, action, adminNotes) ==
  /\ Rzp_ReviewOn(findById(id), id, action, adminNotes)
  /\ UNCHANGED reqs

----------------------------------------------------------------------------
(* Razorpay variant: PUT /api/bookings/:id/start *)
(* body: vehicleName, vehicleNumber, startOdometer *)

\* a start that also lets an accepted, unpaid booking through
Rzp_StartRejected_Unpaid(booking) ==
  booking.status \notin {"paid", "payment_pending"}

Rzp_StartRejected(booking) == booking.status # "paid"

Rzp_StartOn(doc, id, body) ==
  /\ UNCHANGED <<cars, carts, now, notificationFault, gwRefunds, gwOrders>>
  /\ IF doc = <<>>
     THEN /\ Respond(404, "Booking not found")
          /\ UNCHANGED <<bookings, notifications>>
     ELSE LET booking == doc[1] IN
     IF Rzp_StartRejected(booking)
     THEN /\ Respond(400, "Payment must be completed first")
          /\ UNCHANGED <<bookings, notifications>>
     ELSE /\ save(id, booking, [booking EXCEPT !.status = "active",
                                               !.vehicleName = body.vehicleName,
                                               !.vehicleNumber = body.vehicleNumber,
                                               !.startOdometer = body.startOdometer,
                                               !.depositStatus = "received"])
          /\ createNotification(booking.customerId, <<"started">>, id, "booking_update")
          /\ Respond(200, "Booking marked as active")

Rzp_Start(id, body) ==
  /\ Rzp_StartOn(findById(id), id, body)
  /\ UNCHANGED reqs

----------------------------------------------------------------------------
(* Razorpay variant: PUT /api/bookings/:id/complete *)
(* body: endOdometer, actualReturnTime (NoTime when absent) *)

Rzp_CompleteRejected(booking) == booking.status # "active"

Rzp_CompleteOn(doc, id, body) ==
  /\ UNCHANGED <<carts, now, notificationFault, gwRefunds, gwOrders>>
  /\ IF doc = <<>>
     THEN /\ Respond(404, "Booking not found")
          /\ UNCHANGED <<cars, bookings, notifications>>
     ELSE LET booking == doc[1] IN
     IF Rzp_CompleteRejected(booking)
     THEN /\ Respond(400, "Booking is not active")
          /\ UNCHANGED <<cars, bookings, notifications>>
     ELSE LET returnTime == IF body.actualReturnTime # NoTime
                            THEN body.actualReturnTime ELSE now
              lateFee == calculateLateReturnFee(booking.endTime, returnTime,
                                                LateHourlyRate)
              lateHours == IF lateFee > 0
                           THEN CeilDiv(returnTime - booking.endTime, HourMs)
                           ELSE 0
              message == IF lateFee > 0
                         THEN <<"completed", "late", lateFee, lateHours>>
                         ELSE <<"completed">>
          IN  /\ setAvailable(booking.carId, TRUE)
              /\ createNotification(booking.customerId, message, id, "booking_update")
              /\ save(id, booking,
                      [booking EXCEPT !.status = "completed",
                                      !.endOdometer = body.endOdometer,
                                      !.actualReturnTime = returnTime,
                                      !.lateReturnFee = lateFee,
                                      !.lateHours = lateHours,
                                      !.totalPrice = booking.basePrice + lateFee,
                                      !.depositStatus = "refunded"])
              /\ Respond(200, "Booking completed successfully")

Rzp_Complete(id, body) ==
  /\ Rzp_CompleteOn(findById(id), id, body)
  /\ UNCHANGED reqs

----------------------------------------------------------------------------
(* Razorpay variant: POST /api/payment/create-order *)

\* create-order without the ownership check
Rzp_CreateOrderOn_AnyCustomer(doc, u, bookingId) ==
  /\ UNCHANGED <<cars, carts, now, notificationFault, gwRefunds, notifications>>
  /\ IF doc = <<>>
     THEN /\ Respond(404, "Booking not found")
          /\ UNCHANGED <<bookings, gwOrders>>
     ELSE IF doc[1].status # "payment_pending"
     THEN /\ Respond(400, "Booking must be accepted by admin before payment")
          /\ UNCHANGED <<bookings, gwOrders>>
     ELSE /\ gwOrders' = Append(gwOrders,
                                GatewayOrder(bookingId, doc[1].totalPrice * 100))
          /\ save(bookingId, doc[1],
                  [doc[1] EXCEPT !.razorpayOrderId = OrderId(Len(gwOrders) + 1),
                                 !.updatedAt = now])
          /\ Respond(200, "order created")

Rzp_CreateOrderOn(doc, u, bookingId) ==
  /\ UNCHANGED <<cars, carts, now, notificationFault, gwRefunds, notifications>>
  /\ IF doc = <<>>
     THEN /\ Respond(404, "Booking not found")
          /\ UNCHANGED <<bookings, gwOrders>>
     ELSE LET booking == doc[1] IN
     IF booking.customerId # u
     THEN /\ Respond(403, "Access denied")
          /\ UNCHANGED <<bookings, gwOrders>>
     ELSE IF booking.status # "payment_pending"
     THEN /\ Respond(400, "Booking must be accepted by admin before payment")
          /\ UNCHANGED <<bookings, gwOrders>>
     ELSE LET razorpayOrder == OrderId(Len(gwOrders) + 1) IN
          /\ gwOrders' = Append(gwOrders,
                                GatewayOrder(bookingId, booking.totalPrice * 100))
          /\ save(bookingId, booking,
                  [booking EXCEPT !.razorpayOrderId = razorpayOrder,
                                  !.updatedAt = now])
          /\ Respond(200, "order created")

Rzp_CreateOrder(u, bookingId) ==
  /\ Rzp_CreateOrderOn(findById(bookingId), u, bookingId)
  /\ UNCHANGED reqs

----------------------------------------------------------------------------
(* Razorpay variant: POST /api/payment/verify *)
(* body: razorpay_order_id, razorpay_payment_id, razorpay_signature,       *)
(*       bookingId                                                         *)

\* a verify that skips the signature comparison
isAuthentic_Skipped(body) == TRUE

isAuthentic(body) ==
  LET expectedSignature ==
        Hmac(KeySecret, <<body.razorpay_order_id, "|", body.razorpay_payment_id>>)
  IN  expectedSignature = body.razorpay_signature

Rzp_VerifyOn(doc, body) ==
  /\ UNCHANGED <<carts, now, notificationFault, gwRefunds, gwOrders>>
  /\ IF doc = <<>>
     THEN /\ Respond(404, "Booking not found")
          /\ UNCHANGED <<cars, bookings, notifications>>
     ELSE LET booking == doc[1] IN
          /\ save(body.bookingId, booking,
                  [booking EXCEPT !.status = "paid",
                                  !.paymentStatus = "completed",
                                  !.razorpayPaymentId = body.razorpay_payment_id,
                                  !.razorpayOrderId = body.razorpay_order_id,
                                  !.razorpaySignature = body.razorpay_signature,
                                  !.paymentDate = now,
                                  !.updatedAt = now])
          /\ setAvailable(booking.carId, FALSE)
          /\ createNotification(booking.customerId, <<"payment_verified">>,
                                body.bookingId, "payment")
          /\ Respond(200, "Payment verified successfully!")

Rzp_Verify(body) ==
  /\ UNCHANGED reqs
  /\ IF ~isAuthentic(body)
     THEN /\ Respond(400, "Payment verification failed - Invalid signature")
          /\ UNCHANGED <<cars, bookings, notifications, carts, now, notificationFault, gwRefunds, gwOrders>>
     ELSE Rzp_VerifyOn(findById(body.bookingId), body)

----------------------------------------------------------------------------
(* Razorpay variant: POST /api/payment/webhook *)
(* signature: the x-razorpay-signature header; body: event, entity *)

Rzp_WebhookOn(doc, body) ==
  /\ UNCHANGED <<carts, now, notificationFault, gwRefunds, gwOrders>>
  /\ Respond(200, "ok")
  /\ IF body.event = "payment.authorized" /\ doc # <<>>
     THEN LET booking == doc[1] IN
          /\ save(booking._id, booking,
                  [booking EXCEPT !.status = "paid",
                                  !.paymentStatus = "completed",
                                  !.razorpayPaymentId = body.entity.id,
                                  !.paymentDate = now])
          /\ setAvailable(booking.carId, FALSE)
          /\ createNotification(booking.customerId, <<"payment_confirmed">>,
                                booking._id, "payment")
     ELSE IF body.event = "payment.failed" /\ doc # <<>>
     THEN LET failedBooking == doc[1] IN
          /\ save(failedBooking._id, failedBooking,
                  [failedBooking EXCEPT !.paymentStatus = "failed"])
          /\ createNotification(failedBooking.customerId, <<"payment_failed">>,
                                failedBooking._id, "payment")
          /\ UNCHANGED cars
     ELSE UNCHANGED <<cars, bookings, notifications>>

Rzp_Webhook(signature, body) ==
  /\ UNCHANGED reqs
  /\ IF signature # Hmac(WebhookSecret, body)
     THEN /\ Respond(400, "Invalid webhook signature")
          /\ UNCHANGED <<cars, bookings, notifications, carts, now, notificationFault, gwRefunds, gwOrders>>
     ELSE Rzp_WebhookOn(findById(body.entity.notes.bookingId), body)

----------------------------------------------------------------------------
(* The clock *)

Tick ==
  /\ now < MaxTicks * HourMs
  /\ now' = now + HourMs
  /\ UNCHANGED <<cars, bookings, notifications, carts, notificationFault, gwRefunds, gwOrders,
               reqs, res>>

----------------------------------------------------------------------------
(* Razorpay variant: the requests of the model *)

BookingIds == 1 .. (Len(bookings) + 1)

SubmitBody(carId, startTime, duration, docsPresent) ==
  [carId |-> carId, startTime |-> startTime, duration |-> duration,
   docsPresent |-> docsPresent, homeDelivery |-> Undefined,
   deliveryDistance |-> NoNum]

\* a valid request per window, and one request per validation failure
SubmitBodies(startTimes) ==
  {SubmitBody("c1", st, 12, TRUE) : st \in startTimes}
  \cup {SubmitBody("c1", 0, 7, TRUE), SubmitBody("c0", 0, 12, TRUE),
        SubmitBody("c1", 0, 12, FALSE)}

StartBodies ==
  [vehicleName : {"Swift"}, vehicleNumber : {"KA01"}, startOdometer : {1000}]

CompleteBodies(id) ==
  [endOdometer : {1050},
   actualReturnTime : {NoTime} \cup
     (IF id \in DOMAIN bookings
      THEN {bookings[id].endTime + 2 * HourMs}
      ELSE {})]

\* a verify request: what a checkout returned, or the same with a forged
\* signature, for any booking id
VerifyBodies ==
  LET results == CheckoutResults \cup
        {[razorpay_order_id |-> OrderId(n), razorpay_payment_id |-> PaymentId(n),
          razorpay_signature |->
            Hmac(ForgedSecret, <<OrderId(n), "|", PaymentId(n)>>)] :
           n \in DOMAIN gwOrders}
  IN  {[razorpay_order_id |-> r.razorpay_order_id,
        razorpay_payment_id |-> r.razorpay_payment_id,
        razorpay_signature |-> r.razorpay_signature,
        bookingId |-> b] : r \in results, b \in BookingIds}

NoResponse == [status |-> 0, body |-> "none"]

InitRzp ==
  /\ cars = RzpCars
  /\ bookings = <<>>
  /\ notifications = EmptyBag
  /\ carts = <<>>
  /\ now = 0
  /\ notificationFault = FALSE
  /\ gwRefunds = <<>>
  /\ gwOrders = <<>>
  /\ reqs = <<>>
  /\ res = NoResponse

NotifRoom(maxNotifications) == BagCardinality(notifications) < maxNotifications

\* the verify requests of customers who send what the checkout returned for
\* the booking the order was created for (or a forged signature for it)
OwnVerifyBodies ==
  {body \in VerifyBodies :
     \E n \in DOMAIN gwOrders :
       /\ body.razorpay_order_id = OrderId(n)
       /\ body.bookingId = gwOrders[n].bookingId}

Limits(maxBookings, maxOrders, maxNotifications) ==
  [bookings |-> maxBookings, orders |-> maxOrders,
   notifications |-> maxNotifications]

NextRzp(max, submitters, startTimes, verifyBodies) ==
  \/ \E u \in submitters, body \in SubmitBodies(startTimes) :
       Len(bookings) < max.bookings /\ Rzp_Submit(u, body)
  \/ \E id \in BookingIds, action \in {"accept", "decline", "hold"} :
       NotifRoom(max.notifications) /\ Rzp_Review(id, action, "notes")
  \/ \E id \in BookingIds, body \in StartBodies :
       NotifRoom(max.notifications) /\ Rzp_Start(id, body)
  \/ \E id \in BookingIds : \E body \in CompleteBodies(id) :
       NotifRoom(max.notifications) /\ Rzp_Complete(id, body)
  \/ \E u \in Customers, id \in BookingIds :
       Len(gwOrders) < max.orders /\ Rzp_CreateOrder(u, id)
  \/ \E n \in DOMAIN gwOrders : Gw_Pay(n)
  \/ \E n \in DOMAIN gwOrders : Gw_Fail(n)
  \/ \E body \in verifyBodies :
       NotifRoom(max.notifications) /\ Rzp_Verify(body)
  \/ \E body \in GatewayEvents, secret \in {WebhookSecret, ForgedSecret} :
       NotifRoom(max.notifications) /\ Rzp_Webhook(Hmac(secret, body), body)

\* one booking: the whole lifecycle with every request
NextOne ==
  NextRzp(Limits(MaxBookings, MaxOrders, MaxNotifications), Customers, {0},
          VerifyBodies)

Spec == InitRzp /\ [][NextOne]_vars

\* one booking and the clock
SpecClock == InitRzp /\ [][NextOne \/ Tick]_vars

\* two bookings of one customer for the same car, in two windows, paid by
\* customers who verify each payment for the booking it was made for
NextTwo ==
  NextRzp(Limits(TwoBookings, TwoOrders, TwoNotifications), {"alice"},
          {0, 12 * HourMs}, OwnVerifyBodies)

SpecTwo == InitRzp /\ [][NextTwo]_vars

\* two bookings and one order, with every verify request
NextCross ==
  NextRzp(Limits(TwoBookings, MaxOrders, MaxNotifications), Customers, {0},
          VerifyBodies)

SpecCross == InitRzp /\ [][NextCross]_vars

----------------------------------------------------------------------------
(* Razorpay variant: requests in flight                                    *)
(* A handler awaits Booking.findById and later awaits booking.save(); other *)
(* requests run between the two. reqs holds the requests that have loaded   *)
(* their document and not yet run the rest of the handler.                  *)

Request(op, id, body) ==
  [op |-> op, id |-> id, body |-> body, doc |-> findById(id)]

Remove(seq, i) == SubSeq(seq, 1, i - 1) \o SubSeq(seq, i + 1, Len(seq))

\* the handler up to and including its findById
Race_Load(op, id, body) ==
  /\ Len(reqs) < MaxRequests
  /\ op = "verify" => isAuthentic(body)
  /\ reqs' = Append(reqs, Request(op, id, body))
  /\ UNCHANGED <<cars, bookings, notifications, carts, now, notificationFault, gwRefunds, gwOrders, res>>

\* the rest of the handler, on the document it loaded
Race_Finish(i) ==
  /\ LET r == reqs[i] IN
       CASE r.op = "review" -> Rzp_ReviewOn(r.doc, r.id, r.body.action, r.body.adminNotes)
         [] r.op = "start" -> Rzp_StartOn(r.doc, r.id, r.body)
         [] r.op = "complete" -> Rzp_CompleteOn(r.doc, r.id, r.body)
         [] r.op = "verify" -> Rzp_VerifyOn(r.doc, r.body)
  /\ reqs' = Remove(reqs, i)

ReviewBodies == [action : {"accept", "decline"}, adminNotes : {"notes"}]

NextRace ==
  \/ \E body \in SubmitBodies({0}) :
       Len(bookings) < MaxBookings /\ Rzp_Submit("alice", body)
  \/ \E id \in DOMAIN bookings :
       Len(gwOrders) < MaxOrders /\ Rzp_CreateOrder("alice", id)
  \/ \E n \in DOMAIN gwOrders : Gw_Pay(n)
  \/ \E id \in DOMAIN bookings, body \in ReviewBodies : Race_Load("review", id, body)
  \/ \E id \in DOMAIN bookings, body \in StartBodies : Race_Load("start", id, body)
  \/ \E id \in DOMAIN bookings : \E body \in CompleteBodies(id) :
       Race_Load("complete", id, body)
  \/ \E body \in OwnVerifyBodies : Race_Load("verify", body.bookingId, body)
  \/ \E i \in DOMAIN reqs : NotifRoom(RaceNotifications) /\ Race_Finish(i)

\* one booking, with two requests whose load and save interleave
SpecRace == InitRzp /\ [][NextRace]_vars

----------------------------------------------------------------------------
(* Cart variant: schema and helpers                                        *)
(* A date is a day number, a time of day one of the "HH:MM" strings below.  *)

DayMs == 24 * HourMs
MinuteMs == 60000

CartCars == [c1 |-> [name |-> "c1", price12hrs |-> 1500, price24hrs |-> 2500]]

TimeStrings == {"00:00", "12:00"}

\* timeStr.split(':')
split(timeStr) ==
  CASE timeStr = "00:00" -> <<"00", "00">>
    [] timeStr = "12:00" -> <<"12", "00">>

\* parseInt of a text: its leading decimal digits, NaN when there are none
parseInt(text) ==
  CASE text = "00" -> 0
    [] text = "12" -> 12
    [] text = "1.2e1" -> 1
    [] text = "" -> NaN
    [] text = "7" -> 7
    [] text = "12h" -> 12

createDateTime(dateStr, timeStr) ==
  LET date == dateStr * DayMs
      hours == split(timeStr)[1]
      minutes == split(timeStr)[2]
  IN  date + parseInt(hours) * HourMs + parseInt(minutes) * MinuteMs

\* hasTimeOverlap over closed intervals
hasTimeOverlap_Closed(start1, end1, start2, end2) == start1 <= end2 /\ end1 >= start2

hasTimeOverlap(start1, end1, start2, end2) == start1 < end2 /\ end1 > start2

\* checkAvailability without the status filter of the query
checkAvailability_AnyStatus(carId, startDateTime, endDateTime) ==
  \A i \in {j \in DOMAIN bookings : bookings[j].carId = carId} :
    ~hasTimeOverlap(startDateTime, endDateTime,
                    createDateTime(bookings[i].startDate, bookings[i].startTime),
                    createDateTime(bookings[i].endDate, bookings[i].endTime))

checkAvailability(carId, startDateTime, endDateTime) ==
  LET existingBookings ==
        {i \in DOMAIN bookings :
           bookings[i].carId = carId /\ bookings[i].status \in {"pending", "confirmed"}}
  IN  \A i \in existingBookings :
        LET bookingStart == createDateTime(bookings[i].startDate, bookings[i].startTime)
            bookingEnd == createDateTime(bookings[i].endDate, bookings[i].endTime)
        IN  ~hasTimeOverlap(startDateTime, endDateTime, bookingStart, bookingEnd)

CartItem(u, body, price) ==
  [userId |-> u, carId |-> body.carId,
   startDate |-> body.startDate, startTime |-> body.startTime,
   endDate |-> body.endDate, endTime |-> body.endTime,
   duration |-> body.duration, calculatedPrice |-> price, createdAt |-> now]

CartBooking(u, item) ==
  [userId |-> u, carId |-> item.carId,
   startDate |-> item.startDate, endDate |-> item.endDate,
   startTime |-> item.startTime, endTime |-> item.endTime,
   duration |-> item.duration, totalAmount |-> item.calculatedPrice,
   status |-> "pending", paymentId |-> <<>>, paymentMethod |-> NoStr,
   razorpayOrderId |-> <<>>, createdAt |-> now]

\* Cart.find({ userId }): carts is the sequence of all cart items
cartItemsOf(u) == SelectSeq(carts, LAMBDA item : item.userId = u)

----------------------------------------------------------------------------
(* Cart variant: POST /api/cart *)
(* body: carId, startDate, startTime, endDate, endTime, duration *)

Cart_Add(u, body) ==
  /\ UNCHANGED <<cars, bookings, notifications, now, notificationFault, gwRefunds, gwOrders, reqs>>
  /\ IF body.carId \notin DOMAIN cars
     THEN Respond(404, "Car not found") /\ UNCHANGED carts
     ELSE LET car == cars[body.carId]
              startDateTime == createDateTime(body.startDate, body.startTime)
              endDateTime == createDateTime(body.endDate, body.endTime)
              price == IF body.duration = 12 THEN car.price12hrs ELSE car.price24hrs
          IN  IF ~checkAvailability(body.carId, startDateTime, endDateTime)
              THEN /\ Respond(400, "Car is not available for the selected time slot")
                   /\ UNCHANGED carts
              ELSE IF \E k \in DOMAIN carts :
                        carts[k].userId = u /\ carts[k].carId = body.carId
              THEN Respond(400, "Car already in cart") /\ UNCHANGED carts
              ELSE /\ carts' = Append(carts, CartItem(u, body, price))
                   /\ Respond(201, "added to cart")

----------------------------------------------------------------------------
(* Cart variant: POST /api/checkout *)

\* the revalidation loop: every item of the cart is still available
Cart_Revalidated(cartItems) ==
  \A k \in DOMAIN cartItems :
    checkAvailability(cartItems[k].carId,
                      createDateTime(cartItems[k].startDate, cartItems[k].startTime),
                      createDateTime(cartItems[k].endDate, cartItems[k].endTime))

\* a checkout that clears the carts of every user
Cart_CheckoutCreate_ClearsAll(u, cartItems) ==
  /\ bookings' = bookings \o [k \in DOMAIN cartItems |-> CartBooking(u, cartItems[k])]
  /\ carts' = <<>>
  /\ Respond(201, "Bookings created successfully")
  /\ UNCHANGED <<cars, notifications, now, notificationFault, gwRefunds, gwOrders>>

\* the creation loop, the clearing of the cart and the response
Cart_CheckoutCreate(u, cartItems) ==
  /\ bookings' = bookings \o [k \in DOMAIN cartItems |-> CartBooking(u, cartItems[k])]
  /\ carts' = SelectSeq(carts, LAMBDA item : item.userId # u)
  /\ Respond(201, "Bookings created successfully")
  /\ UNCHANGED <<cars, notifications, now, notificationFault, gwRefunds, gwOrders>>

Cart_CheckoutRejected(cartItems) ==
  /\ IF Len(cartItems) = 0
     THEN Respond(400, "Cart is empty")
     ELSE Respond(400, "no longer available for the selected time slot")
  /\ UNCHANGED <<cars, bookings, notifications, carts, now, notificationFault, gwRefunds, gwOrders, reqs>>

Cart_Checkout(u) ==
  LET cartItems == cartItemsOf(u) IN
    IF Len(cartItems) = 0 \/ ~Cart_Revalidated(cartItems)
    THEN Cart_CheckoutRejected(cartItems)
    ELSE Cart_CheckoutCreate(u, cartItems) /\ UNCHANGED reqs

----------------------------------------------------------------------------
(* Cart variant: POST /api/payment/verify *)
(* body: razorpayOrderId, razorpayPaymentId, razorpaySignature, bookingIds *)
(* The signature comparison is commented out in the handler.               *)

Cart_PaymentVerify(u, body) ==
  /\ bookings' =
       [i \in DOMAIN bookings |->
          IF i \in body.bookingIds /\ bookings[i].userId = u
          THEN [bookings[i] EXCEPT !.status = "confirmed",
                                   !.paymentId = body.razorpayPaymentId,
                                   !.razorpayOrderId = body.razorpayOrderId,
                                   !.paymentMethod = "Razorpay"]
          ELSE bookings[i]]
  /\ Respond(200, "Payment verified and bookings confirmed")
  /\ UNCHANGED <<cars, notifications, carts, now, notificationFault, gwRefunds, gwOrders, reqs>>

----------------------------------------------------------------------------
(* Cart variant: PUT /api/orders/:id/cancel *)

\* a cancel that looks the booking up by _id alone
Cart_Cancel_AnyUser(u, id) ==
  /\ UNCHANGED <<cars, notifications, carts, now, notificationFault, gwRefunds, gwOrders, reqs>>
  /\ IF id \notin DOMAIN bookings
     THEN Respond(404, "Booking not found") /\ UNCHANGED bookings
     ELSE IF bookings[id].status \in {"completed", "cancelled"}
     THEN Respond(400, "Cannot cancel this booking") /\ UNCHANGED bookings
     ELSE /\ save(id, bookings[id], [bookings[id] EXCEPT !.status = "cancelled"])
          /\ Respond(200, "Booking cancelled")

Cart_Cancel(u, id) ==
  /\ UNCHANGED <<cars, notifications, carts, now, notificationFault, gwRefunds, gwOrders, reqs>>
  /\ IF ~(id \in DOMAIN bookings /\ bookings[id].userId = u)
     THEN Respond(404, "Booking not found") /\ UNCHANGED bookings
     ELSE IF bookings[id].status \in {"completed", "cancelled"}
     THEN Respond(400, "Cannot cancel this booking") /\ UNCHANGED bookings
     ELSE /\ save(id, bookings[id], [bookings[id] EXCEPT !.status = "cancelled"])
          /\ Respond(200, "Booking cancelled")

----------------------------------------------------------------------------
(* Cart variant: the requests of the model *)

CartBody(startDate, startTime, endDate, endTime, duration) ==
  [carId |-> "c1", startDate |-> startDate, startTime |-> startTime,
   endDate |-> endDate, endTime |-> endTime, duration |-> duration]

\* a morning, the whole day, and a car that does not exist
CartBodies ==
  {CartBody(0, "00:00", 0, "12:00", 12), CartBody(0, "00:00", 1, "00:00", 24),
   [CartBody(0, "00:00", 0, "12:00", 12) EXCEPT !.carId = "c0"]}

CartVerifyBodies ==
  [razorpayOrderId : {OrderId(1)}, razorpayPaymentId : {PaymentId(1)},
   razorpaySignature : {Hmac(KeySecret, <<OrderId(1), "|", PaymentId(1)>>),
                        Hmac(ForgedSecret, <<OrderId(1), "|", PaymentId(1)>>)},
   bookingIds : SUBSET (DOMAIN bookings)]

InitCart ==
  /\ cars = CartCars
  /\ bookings = <<>>
  /\ notifications = EmptyBag
  /\ carts = <<>>
  /\ now = 0
  /\ notificationFault = FALSE
  /\ gwRefunds = <<>>
  /\ gwOrders = <<>>
  /\ reqs = <<>>
  /\ res = NoResponse

BookingRoom(u) == Len(bookings) + Len(cartItemsOf(u)) <= MaxCartBookings

NextCart ==
  \/ \E u \in Customers, body \in CartBodies : Cart_Add(u, body)
  \/ \E u \in Customers : BookingRoom(u) /\ Cart_Checkout(u)
  \/ \E u \in Customers, body \in CartVerifyBodies : Cart_PaymentVerify(u, body)
  \/ \E u \in Customers, id \in BookingIds : Cart_Cancel(u, id)

SpecCart == InitCart /\ [][NextCart]_vars

----------------------------------------------------------------------------
(* Cart variant: checkouts in flight                                       *)
(* A checkout awaits every checkAvailability and then every Booking.create; *)
(* reqs holds the checkouts that have revalidated and not yet created.      *)

Cart_CheckoutLoad(u) ==
  LET cartItems == cartItemsOf(u) IN
    IF Len(cartItems) = 0 \/ ~Cart_Revalidated(cartItems)
    THEN Cart_CheckoutRejected(cartItems)
    ELSE /\ Len(reqs) < MaxRequests
         /\ reqs' = Append(reqs, [op |-> "checkout", userId |-> u,
                                  cartItems |-> cartItems])
         /\ UNCHANGED <<cars, bookings, notifications, carts, now, notificationFault, gwRefunds,
                      gwOrders, res>>

Cart_CheckoutFinish(i) ==
  /\ Cart_CheckoutCreate(reqs[i].userId, reqs[i].cartItems)
  /\ reqs' = Remove(reqs, i)

NextCartRace ==
  \/ \E u \in Customers, body \in CartBodies : Cart_Add(u, body)
  \/ \E u \in Customers : BookingRoom(u) /\ Cart_CheckoutLoad(u)
  \/ \E i \in DOMAIN reqs : Cart_CheckoutFinish(i)
  \/ \E u \in Customers, id \in BookingIds : Cart_Cancel(u, id)

SpecCartRace == InitCart /\ [][NextCartRace]_vars

----------------------------------------------------------------------------
(* Properties of the Razorpay variant *)

ValidSignature(body) ==
  body.razorpay_signature =
    Hmac(KeySecret, <<body.razorpay_order_id, "|", body.razorpay_payment_id>>)

\* two half-open windows [startTime, endTime) share an instant
WindowsOverlap(a, b) == a.startTime < b.endTime /\ b.startTime < a.endTime

Committed(b) == b.status \in {"paid", "active"}

\* C1: no two bookings of the same car with overlapping windows
\* [startTime, endTime) are both in status paid or active.
C1_NoOverlappingCommitted ==
  \A i, j \in DOMAIN bookings :
    (i < j /\ bookings[i].carId = bookings[j].carId
       /\ WindowsOverlap(bookings[i], bookings[j]))
    => ~(Committed(bookings[i]) /\ Committed(bookings[j]))

\* C2: a payment confirmation (a verify with a valid signature, or a
\* payment.authorized webhook) delivered for a booking whose status is not
\* payment_pending leaves its status, its paymentStatus and the car's
\* available flag unchanged.
C2_ConfirmationOnlyWhenPaymentPending ==
  [][ /\ \A body \in VerifyBodies :
           (/\ ValidSignature(body)
            /\ body.bookingId \in DOMAIN bookings
            /\ bookings[body.bookingId].status # "payment_pending"
            /\ Rzp_Verify(body))
           => /\ bookings'[body.bookingId].status = bookings[body.bookingId].status
              /\ bookings'[body.bookingId].paymentStatus =
                   bookings[body.bookingId].paymentStatus
              /\ cars' = cars
      /\ \A body \in GatewayEvents :
           (/\ body.event = "payment.authorized"
            /\ bookings[body.entity.notes.bookingId].status # "payment_pending"
            /\ Rzp_Webhook(Hmac(WebhookSecret, body), body))
           => /\ bookings'[body.entity.notes.bookingId].status =
                   bookings[body.entity.notes.bookingId].status
              /\ bookings'[body.entity.notes.bookingId].paymentStatus =
                   bookings[body.entity.notes.bookingId].paymentStatus
              /\ cars' = cars
    ]_vars

\* C3: the second delivery of a successful payment confirmation (the booking
\* is paid and already stores this transaction id and this signature, written
\* by the first delivery) succeeds and changes no field of the booking and
\* none of the car.
C3_SecondDeliveryChangesNothing ==
  [][ \A body \in VerifyBodies :
        (/\ ValidSignature(body)
         /\ body.bookingId \in DOMAIN bookings
         /\ bookings[body.bookingId].status = "paid"
         /\ bookings[body.bookingId].razorpayPaymentId = body.razorpay_payment_id
         /\ bookings[body.bookingId].razorpaySignature = body.razorpay_signature
         /\ Rzp_Verify(body))
        => /\ res'.status = 200
           /\ bookings' = bookings
           /\ cars' = cars
    ]_vars

\* C4: a payment-success webhook event delivered again (the booking already
\* stores its payment id as paid) creates no further payment notification.
C4_OneNotificationPerEvent ==
  [][ \A body \in GatewayEvents :
        (/\ body.event = "payment.authorized"
         /\ bookings[body.entity.notes.bookingId].paymentStatus = "completed"
         /\ bookings[body.entity.notes.bookingId].razorpayPaymentId = body.entity.id
         /\ Rzp_Webhook(Hmac(WebhookSecret, body), body))
        => notifications' = notifications
    ]_vars

\* C7: a review of a booking that is not pending, a start of a booking that
\* is not paid and a complete of a booking that is not active each answer
\* with an error, create no notification and change no field of a booking or
\* of a car.
C7_RejectedTransitionChangesNothing ==
  [][ /\ \A id \in DOMAIN bookings, action \in {"accept", "decline"} :
           (bookings[id].status # "pending" /\ Rzp_Review(id, action, "notes"))
           => (res'.status = 400 /\ UNCHANGED <<bookings, cars, notifications>>)
      /\ \A id \in DOMAIN bookings, body \in StartBodies :
           (bookings[id].status # "paid" /\ Rzp_Start(id, body))
           => (res'.status = 400 /\ UNCHANGED <<bookings, cars, notifications>>)
      /\ \A id \in DOMAIN bookings : \A body \in CompleteBodies(id) :
           (bookings[id].status # "active" /\ Rzp_Complete(id, body))
           => (res'.status = 400 /\ UNCHANGED <<bookings, cars, notifications>>)
    ]_vars

\* C7 witness: a start was refused on a booking that is still pending
C7_Witness ==
  /\ res = [status |-> 400, body |-> "Payment must be completed first"]
  /\ \E id \in DOMAIN bookings : bookings[id].status = "pending"

\* C8: a verify whose signature differs from the HMAC of order_id|payment_id
\* answers with an error and changes no booking, no car and creates no
\* notification, whatever the status of the booking it names.
C8_InvalidSignatureChangesNothing ==
  [][ \A body \in VerifyBodies :
        (~ValidSignature(body) /\ Rzp_Verify(body))
        => (res'.status = 400 /\ UNCHANGED <<bookings, cars, notifications>>)
    ]_vars

\* C8 witness: a verify was refused for its signature while a booking waits
\* for its payment
C8_Witness ==
  /\ res = [status |-> 400,
            body |-> "Payment verification failed - Invalid signature"]
  /\ \E id \in DOMAIN bookings : bookings[id].status = "payment_pending"

\* C10: a successful verify for gateway order O changes no booking whose
\* stored razorpayOrderId differs from O (or is absent).
C10_OnlyTheCorrelatedBooking ==
  [][ \A body \in VerifyBodies :
        (/\ ValidSignature(body)
         /\ body.bookingId \in DOMAIN bookings
         /\ bookings[body.bookingId].razorpayOrderId # body.razorpay_order_id
         /\ Rzp_Verify(body))
        => bookings'[body.bookingId] = bookings[body.bookingId]
    ]_vars

\* C5: a request that loaded a booking and reaches its save after another
\* request has changed the booking's status lost the race: it answers with
\* the invalid-transition error (400) and changes no booking and no car.
C5_LoserOfTheRaceFails ==
  [][ \A i \in DOMAIN reqs :
        (/\ reqs[i].doc # <<>>
         /\ bookings[reqs[i].id].status # reqs[i].doc[1].status
         /\ Race_Finish(i))
        => (res'.status = 400 /\ UNCHANGED <<bookings, cars>>)
    ]_vars

----------------------------------------------------------------------------
(* Properties of the cart variant *)

CartWindowsOverlap(a, b) ==
  hasTimeOverlap(createDateTime(a.startDate, a.startTime),
                 createDateTime(a.endDate, a.endTime),
                 createDateTime(b.startDate, b.startTime),
                 createDateTime(b.endDate, b.endTime))

\* C6: the checkouts of two users, however they interleave, leave no two
\* pending or confirmed bookings of the same car with overlapping windows.
C6_OneBookingPerWindow ==
  \A i, j \in DOMAIN bookings :
    (/\ i < j
     /\ bookings[i].userId # bookings[j].userId
     /\ bookings[i].carId = bookings[j].carId
     /\ bookings[i].status \in {"pending", "confirmed"}
     /\ bookings[j].status \in {"pending", "confirmed"})
    => ~CartWindowsOverlap(bookings[i], bookings[j])

\* C9: a payment verify whose razorpaySignature is not the HMAC of
\* razorpayOrderId|razorpayPaymentId changes no booking.
C9_InvalidSignatureConfirmsNothing ==
  [][ \A u \in Customers, body \in CartVerifyBodies :
        (/\ body.razorpaySignature #
              Hmac(KeySecret, <<body.razorpayOrderId, "|", body.razorpayPaymentId>>)
         /\ Cart_PaymentVerify(u, body))
        => bookings' = bookings
    ]_vars

----------------------------------------------------------------------------
(* Tiered PhonePe variant: cars, form fields and helper functions          *)

PpCars ==
  [c \in {"c1", "c2"} |->
     [carName |-> c,
      pricing |-> [price12hr |-> 1200, price24hr |-> 2000, price36hr |-> 3000,
                   price48hr |-> 3800, price60hr |-> 4800, price72hr |-> 5500],
      securityDeposit |-> 5000,
      driverAvailable |-> (c = "c1"),
      driverChargesPerDay |-> 300,
      available |-> TRUE]]

\* the deliveryDistance field of the multipart form: a text, or undefined
DistanceTexts == {Undefined, "", "3", "7", "4km"}

\* ToNumber of a form field, as applied by the comparison deliveryDistance <= 5
ToNumber(text) ==
  CASE text = Undefined -> NaN
    [] text = "" -> 0
    [] text = "3" -> 3
    [] text = "7" -> 7
    [] text = "4km" -> NaN
    [] text = "12" -> 12
    [] text = "1.2e1" -> 12
    [] text = "12h" -> NaN

\* parseFloat of a form field: the longest numeric prefix, NaN when there is none
parseFloat(text) ==
  CASE text = Undefined -> NaN
    [] text = "" -> NaN
    [] text = "3" -> 3
    [] text = "7" -> 7
    [] text = "4km" -> 4

\* parseFloat(deliveryDistance || 0): a falsy field is replaced by the number 0
parseFloatOrZero(text) == IF Truthy(text) THEN parseFloat(text) ELSE 0

\* number <= 5; NaN compares false
NumberWithin(number) == number # NaN /\ number <= DeliveryMaxDistance

\* calculatePriceByDuration counting only completed 24-hour units
calculatePriceByDuration_RoundDown(car, duration, withDriver) ==
  [basePrice |-> car.pricing.price24hr * (duration \div 24),
   driverCharges |-> IF withDriver /\ car.driverAvailable
                     THEN car.driverChargesPerDay * (duration \div 24) ELSE 0]

\* calculatePriceByDuration charging the driver whatever the car offers
calculatePriceByDuration_AnyCar(car, duration, withDriver) ==
  [basePrice |-> car.pricing.price24hr * CeilDiv(duration, 24),
   driverCharges |-> IF withDriver
                     THEN car.driverChargesPerDay * CeilDiv(duration, 24) ELSE 0]

calculatePriceByDuration(car, duration, withDriver) ==
  LET basePrice ==
        IF duration = 12 THEN car.pricing.price12hr
        ELSE IF duration = 24 THEN car.pricing.price24hr
        ELSE IF duration = 36 THEN car.pricing.price36hr
        ELSE IF duration = 48 THEN car.pricing.price48hr
        ELSE IF duration = 60 THEN car.pricing.price60hr
        ELSE IF duration = 72 THEN car.pricing.price72hr
        ELSE car.pricing.price24hr * CeilDiv(duration, 24)
      driverCharges ==
        IF withDriver /\ car.driverAvailable
        THEN car.driverChargesPerDay * CeilDiv(duration, 24)
        ELSE 0
  IN  [basePrice |-> basePrice, driverCharges |-> driverCharges]

calculateTotalPrice(car, duration, withDriver, homeDelivery, deliveryDistance) ==
  LET price == calculatePriceByDuration(car, duration, withDriver)
      deliveryFee == IF homeDelivery /\ NumberWithin(deliveryDistance)
                     THEN DeliveryFlatFee ELSE 0
  IN  price.basePrice + price.driverCharges + deliveryFee

PpBooking(u, carId, window, price, delivery, totalPrice) ==
  [ _id |-> Len(bookings) + 1,
    customerId |-> u, carId |-> carId,
    startTime |-> window.start, duration |-> window.duration,
    endTime |-> window.end,
    depositAmount |-> window.depositAmount, depositStatus |-> "pending",
    withDriver |-> price.withDriver, driverCharges |-> price.driverCharges,
    homeDelivery |-> delivery.homeDelivery,
    deliveryDistance |-> delivery.deliveryDistance,
    deliveryFee |-> delivery.deliveryFee,
    vehicleName |-> NoStr, vehicleNumber |-> NoStr,
    startOdometer |-> NoNum, endOdometer |-> NoNum,
    basePrice |-> price.basePrice, lateReturnFee |-> 0, totalPrice |-> totalPrice,
    status |-> "pending", adminNotes |-> NoStr,
    paymentStatus |-> "pending",
    phonePeOrderId |-> <<>>, merchantOrderId |-> <<>>,
    phonePeTransactionId |-> <<>>, paymentDate |-> NoTime,
    actualReturnTime |-> NoTime, lateHours |-> 0,
    createdAt |-> now, updatedAt |-> now ]

----------------------------------------------------------------------------
(* Tiered PhonePe variant: POST /api/bookings *)
(* body: carId, startTime, duration, docsPresent (the three uploads),      *)
(*       withDriver, homeDelivery (form strings or Undefined),             *)
(*       deliveryDistance (form text or Undefined)                         *)

Pp_Submit(u, body) ==
  /\ UNCHANGED <<cars, carts, now, notificationFault, gwRefunds, gwOrders, reqs>>
  /\ IF JsRem(body.duration, DurationUnit) # 0
     THEN /\ Respond(400, "Duration must be in multiples of 12 hours")
          /\ UNCHANGED <<bookings, notifications>>
     ELSE IF body.carId \notin DOMAIN cars
     THEN /\ Respond(404, "Car not found")
          /\ UNCHANGED <<bookings, notifications>>
     ELSE IF ~cars[body.carId].available
     THEN /\ Respond(400, "Car is not available")
          /\ UNCHANGED <<bookings, notifications>>
     ELSE IF body.withDriver = "true" /\ ~cars[body.carId].driverAvailable
     THEN /\ Respond(400, "Driver service not available for this car")
          /\ UNCHANGED <<bookings, notifications>>
     ELSE IF ~body.docsPresent
     THEN /\ Respond(400, "All documents are required")
          /\ UNCHANGED <<bookings, notifications>>
     ELSE LET car == cars[body.carId]
              window == [start |-> body.startTime, duration |-> body.duration,
                         end |-> body.startTime + body.duration * HourMs,
                         depositAmount |-> car.securityDeposit]
              deliveryFee ==
                IF body.homeDelivery = "true"
                   /\ NumberWithin(ToNumber(body.deliveryDistance))
                THEN DeliveryFlatFee ELSE 0
              totalPrice ==
                calculateTotalPrice(car, body.duration, body.withDriver = "true",
                                    body.homeDelivery = "true",
                                    parseFloatOrZero(body.deliveryDistance))
              charges == calculatePriceByDuration(car, body.duration,
                                                  body.withDriver = "true")
              price == [basePrice |-> charges.basePrice,
                        driverCharges |-> charges.driverCharges,
                        withDriver |-> body.withDriver = "true"]
              delivery ==
                [homeDelivery |-> body.homeDelivery = "true",
                 deliveryDistance |->
                   IF body.homeDelivery = "true"
                   THEN parseFloat(body.deliveryDistance) ELSE 0,
                 deliveryFee |-> deliveryFee]
              booking == PpBooking(u, body.carId, window, price, delivery, totalPrice)
          IN  IF delivery.deliveryDistance = NaN
              THEN \* the Number cast of NaN fails in booking.save()
                   /\ Respond(500, "Cast to Number failed")
                   /\ UNCHANGED <<bookings, notifications>>
              ELSE /\ bookings' = Append(bookings, booking)
                   /\ createNotification(u, <<"submitted">>, booking._id, "booking_update")
                   /\ Respond(201, "Booking submitted successfully")

----------------------------------------------------------------------------
(* Tiered PhonePe variant: review and start                                *)
(* The two handlers are the ones of src/server.js, line for line.          *)

Pp_Review(id, action, adminNotes) == Rzp_Review(id, action, adminNotes)

Pp_Start(id, body) == Rzp_Start(id, body)

----------------------------------------------------------------------------
(* Tiered PhonePe variant: PUT /api/bookings/:id/complete *)
(* body: endOdometer, actualReturnTime (NoTime when absent) *)

Pp_CompleteOn(doc, id, body) ==
  /\ UNCHANGED <<carts, now, notificationFault, gwRefunds, gwOrders>>
  /\ IF doc = <<>>
     THEN /\ Respond(404, "Booking not found")
          /\ UNCHANGED <<cars, bookings, notifications>>
     ELSE LET booking == doc[1] IN
     IF booking.status # "active"
     THEN /\ Respond(400, "Booking is not active")
          /\ UNCHANGED <<cars, bookings, notifications>>
     ELSE LET returnTime == IF body.actualReturnTime # NoTime
                            THEN body.actualReturnTime ELSE now
              lateFee == calculateLateReturnFee(booking.endTime, returnTime,
                                                LateHourlyRate)
              lateHours == IF lateFee > 0
                           THEN CeilDiv(returnTime - booking.endTime, HourMs)
                           ELSE 0
              message == IF lateFee > 0
                         THEN <<"completed", "late", lateFee, lateHours>>
                         ELSE <<"completed">>
          IN  /\ setAvailable(booking.carId, TRUE)
              /\ createNotification(booking.customerId, message, id, "booking_update")
              /\ save(id, booking,
                      [booking EXCEPT !.status = "completed",
                                      !.endOdometer = body.endOdometer,
                                      !.actualReturnTime = returnTime,
                                      !.lateReturnFee = lateFee,
                                      !.lateHours = lateHours,
                                      !.totalPrice = booking.basePrice
                                                     + booking.driverCharges
                                                     + booking.deliveryFee + lateFee,
                                      !.depositStatus = "refunded"])
              /\ Respond(200, "Booking completed successfully")

Pp_Complete(id, body) ==
  /\ Pp_CompleteOn(findById(id), id, body)
  /\ UNCHANGED reqs

----------------------------------------------------------------------------
(* Tiered PhonePe variant: the gateway                                     *)
(* gwOrders holds the orders made by phonePeClient.pay; an order is        *)
(* PENDING, then COMPLETED or FAILED.                                      *)

MerchantOrderId(n) == <<"merchant", n>>
PhonePeOrderId(n) == <<"OMO", n>>
TransactionId(n) == <<"txn", n>>

OrderState(n) ==
  IF gwOrders[n].paid THEN "COMPLETED"
  ELSE IF gwOrders[n].failed THEN "FAILED" ELSE "PENDING"

\* Booking.findOne({ merchantOrderId })
findByMerchantOrderId(merchantOrderId) ==
  LET found == {i \in DOMAIN bookings : bookings[i].merchantOrderId = merchantOrderId}
  IN  IF found = {} THEN <<>> ELSE <<bookings[CHOOSE i \in found : \A j \in found : i <= j]>>

----------------------------------------------------------------------------
(* Tiered PhonePe variant: POST /api/payment/create-order *)

Pp_CreateOrderOn(doc, u, bookingId) ==
  /\ UNCHANGED <<cars, carts, now, notificationFault, gwRefunds, notifications>>
  /\ IF doc = <<>>
     THEN /\ Respond(404, "Booking not found")
          /\ UNCHANGED <<bookings, gwOrders>>
     ELSE LET booking == doc[1] IN
     IF booking.customerId # u
     THEN /\ Respond(403, "Access denied")
          /\ UNCHANGED <<bookings, gwOrders>>
     ELSE IF booking.status # "payment_pending"
     THEN /\ Respond(400, "Booking must be accepted by admin before payment")
          /\ UNCHANGED <<bookings, gwOrders>>
     ELSE LET n == Len(gwOrders) + 1 IN
          /\ gwOrders' = Append(gwOrders,
                                GatewayOrder(bookingId, booking.totalPrice * 100))
          /\ save(bookingId, booking,
                  [booking EXCEPT !.merchantOrderId = MerchantOrderId(n),
                                  !.phonePeOrderId = PhonePeOrderId(n),
                                  !.updatedAt = now])
          /\ Respond(200, "order created")

Pp_CreateOrder(u, bookingId) ==
  /\ Pp_CreateOrderOn(findById(bookingId), u, bookingId)
  /\ UNCHANGED reqs

----------------------------------------------------------------------------
(* Tiered PhonePe variant: GET /api/payment/status/:merchantOrderId *)
(* u: the caller; isAdminUser: req.user.role === 'admin'; n: the order     *)

Pp_StatusOn(doc, u, isAdminUser, n) ==
  /\ UNCHANGED <<carts, now, notificationFault, gwRefunds, gwOrders>>
  /\ IF doc = <<>>
     THEN /\ Respond(404, "Booking not found")
          /\ UNCHANGED <<cars, bookings, notifications>>
     ELSE LET booking == doc[1] IN
     IF booking.customerId # u /\ ~isAdminUser
     THEN /\ Respond(403, "Access denied")
          /\ UNCHANGED <<cars, bookings, notifications>>
     ELSE IF OrderState(n) = "COMPLETED" /\ booking.status = "payment_pending"
     THEN /\ save(booking._id, booking,
                  [booking EXCEPT !.status = "paid",
                                  !.paymentStatus = "completed",
                                  !.phonePeOrderId = PhonePeOrderId(n),
                                  !.phonePeTransactionId = TransactionId(n),
                                  !.paymentDate = now,
                                  !.updatedAt = now])
          /\ setAvailable(booking.carId, FALSE)
          /\ createNotification(booking.customerId, <<"payment_verified">>,
                                booking._id, "payment")
          /\ Respond(200, OrderState(n))
     ELSE IF OrderState(n) = "FAILED"
     THEN /\ save(booking._id, booking, [booking EXCEPT !.paymentStatus = "failed"])
          /\ Respond(200, OrderState(n))
          /\ UNCHANGED <<cars, notifications>>
     ELSE /\ Respond(200, OrderState(n))
          /\ UNCHANGED <<cars, bookings, notifications>>

Pp_Status(u, isAdminUser, n) ==
  /\ Pp_StatusOn(findByMerchantOrderId(MerchantOrderId(n)), u, isAdminUser, n)
  /\ UNCHANGED reqs

----------------------------------------------------------------------------
(* Tiered PhonePe variant: POST /api/payment/webhook *)
(* authorization: the header; callback: type and payload as validated by   *)
(* phonePeClient.validateCallback, which throws on a wrong header          *)

WebhookCredentials == <<"PHONEPE_WEBHOOK_USERNAME", "PHONEPE_WEBHOOK_PASSWORD">>

\* the callbacks the gateway has emitted
GatewayCallbacks ==
  {[type |-> "CHECKOUT_ORDER_COMPLETED", n |-> n] :
     n \in {m \in DOMAIN gwOrders : gwOrders[m].paid}}
  \cup
  {[type |-> "CHECKOUT_ORDER_FAILED", n |-> n] :
     n \in {m \in DOMAIN gwOrders : gwOrders[m].failed}}
  \cup
  {[type |-> "PG_REFUND_COMPLETED", n |-> n] :
     n \in {m \in DOMAIN gwOrders : gwOrders[m].paid}}

Pp_WebhookOn(doc, callback) ==
  /\ UNCHANGED <<carts, now, notificationFault, gwRefunds, gwOrders>>
  /\ Respond(200, "ok")
  /\ IF callback.type = "CHECKOUT_ORDER_COMPLETED" /\ doc # <<>>
     THEN LET booking == doc[1] IN
          /\ save(booking._id, booking,
                  [booking EXCEPT !.status = "paid",
                                  !.paymentStatus = "completed",
                                  !.phonePeOrderId = PhonePeOrderId(callback.n),
                                  !.phonePeTransactionId = TransactionId(callback.n),
                                  !.paymentDate = now,
                                  !.updatedAt = now])
          /\ setAvailable(booking.carId, FALSE)
          /\ createNotification(booking.customerId, <<"payment_confirmed">>,
                                booking._id, "payment")
     ELSE IF callback.type = "CHECKOUT_ORDER_FAILED" /\ doc # <<>>
     THEN LET failedBooking == doc[1] IN
          /\ save(failedBooking._id, failedBooking,
                  [failedBooking EXCEPT !.paymentStatus = "failed",
                                        !.updatedAt = now])
          /\ createNotification(failedBooking.customerId, <<"payment_failed">>,
                                failedBooking._id, "payment")
          /\ UNCHANGED cars
     ELSE UNCHANGED <<cars, bookings, notifications>>

Pp_Webhook(authorization, callback) ==
  /\ UNCHANGED reqs
  /\ IF authorization # Hmac("sha256", WebhookCredentials)
     THEN /\ Respond(500, "Invalid callback")
          /\ UNCHANGED <<cars, bookings, notifications, carts, now, notificationFault, gwRefunds, gwOrders>>
     ELSE Pp_WebhookOn(findByMerchantOrderId(MerchantOrderId(callback.n)), callback)

----------------------------------------------------------------------------
(* Tiered PhonePe variant: the requests of the model *)

PpSubmitBody(carId, duration, withDriver, homeDelivery, deliveryDistance) ==
  [carId |-> carId, startTime |-> 0, duration |-> duration, docsPresent |-> TRUE,
   withDriver |-> withDriver, homeDelivery |-> homeDelivery,
   deliveryDistance |-> deliveryDistance]

\* a day without extras, a day with driver and delivery, and one request per
\* validation failure
PpSubmitBodies ==
  {PpSubmitBody("c1", 24, "false", "false", Undefined),
   PpSubmitBody("c1", 24, "true", "true", "3"),
   PpSubmitBody("c1", 7, "false", "false", Undefined),
   PpSubmitBody("c0", 24, "false", "false", Undefined),
   PpSubmitBody("c2", 24, "true", "false", Undefined),
   [PpSubmitBody("c1", 24, "false", "false", Undefined) EXCEPT !.docsPresent = FALSE],
   PpSubmitBody("c1", 24, "false", "true", Undefined)}

InitPp ==
  /\ cars = PpCars
  /\ bookings = <<>>
  /\ notifications = EmptyBag
  /\ carts = <<>>
  /\ now = 0
  /\ notificationFault = FALSE
  /\ gwRefunds = <<>>
  /\ gwOrders = <<>>
  /\ reqs = <<>>
  /\ res = NoResponse

NextPp ==
  \/ \E body \in PpSubmitBodies :
       Len(bookings) < MaxBookings /\ Pp_Submit("alice", body)
  \/ \E id \in BookingIds, action \in {"accept", "decline", "hold"} :
       NotifRoom(MaxNotifications) /\ Pp_Review(id, action, "notes")
  \/ \E id \in BookingIds, body \in StartBodies :
       NotifRoom(MaxNotifications) /\ Pp_Start(id, body)
  \/ \E id \in BookingIds : \E body \in CompleteBodies(id) :
       NotifRoom(MaxNotifications) /\ Pp_Complete(id, body)
  \/ \E u \in Customers, id \in BookingIds :
       Len(gwOrders) < MaxOrders /\ Pp_CreateOrder(u, id)
  \/ \E n \in DOMAIN gwOrders : Gw_Pay(n)
  \/ \E n \in DOMAIN gwOrders : Gw_Fail(n)
  \/ \E u \in Customers, isAdminUser \in BOOLEAN, n \in DOMAIN gwOrders :
       NotifRoom(MaxNotifications) /\ Pp_Status(u, isAdminUser, n)
  \/ \E callback \in GatewayCallbacks, secret \in {"sha256", ForgedSecret} :
       NotifRoom(MaxNotifications)
       /\ Pp_Webhook(Hmac(secret, WebhookCredentials), callback)

\* one booking of the tiered variant: the whole lifecycle
SpecPp == InitPp /\ [][NextPp]_vars

----------------------------------------------------------------------------
(* Properties of the tiered PhonePe variant *)

\* C11: the end-to-end run, step by step. A submit for 24 hours without
\* driver and delivery creates a pending booking with totalPrice 2000; its
\* accept gives payment_pending and the same totalPrice; its payment
\* confirmation (the status poll of a COMPLETED order) gives paid and the car
\* unavailable; its start gives active; its complete two hours after endTime
\* gives lateReturnFee 200, totalPrice 2200, completed and the car available.
C11_EndToEndRun ==
  [][ LET plain == PpSubmitBody("c1", 24, "false", "false", Undefined)
          isPlain(id) == /\ bookings[id].totalPrice = 2000
                         /\ bookings[id].driverCharges = 0
                         /\ bookings[id].deliveryFee = 0
      IN
      /\ (cars["c1"].pricing.price24hr = 2000 /\ Pp_Submit("alice", plain)
            /\ res'.status = 201)
         => (/\ Len(bookings') = Len(bookings) + 1
             /\ bookings'[Len(bookings')].totalPrice = 2000
             /\ bookings'[Len(bookings')].status = "pending")
      /\ \A id \in DOMAIN bookings :
           /\ (isPlain(id) /\ bookings[id].status = "pending"
                 /\ Pp_Review(id, "accept", "notes"))
              => (bookings'[id].status = "payment_pending"
                  /\ bookings'[id].totalPrice = bookings[id].totalPrice)
           /\ \A n \in DOMAIN gwOrders :
                (isPlain(id) /\ bookings[id].status = "payment_pending"
                   /\ bookings[id].merchantOrderId = MerchantOrderId(n)
                   /\ OrderState(n) = "COMPLETED"
                   /\ Pp_Status(bookings[id].customerId, FALSE, n))
                => (bookings'[id].status = "paid"
                    /\ ~cars'[bookings[id].carId].available)
           /\ (isPlain(id) /\ bookings[id].status = "paid"
                 /\ \E body \in StartBodies : Pp_Start(id, body))
              => bookings'[id].status = "active"
           /\ (isPlain(id) /\ bookings[id].status = "active"
                 /\ Pp_Complete(id, [endOdometer |-> 1050,
                                     actualReturnTime |->
                                       bookings[id].endTime + 2 * HourMs]))
              => (/\ bookings'[id].lateReturnFee = 200
                  /\ bookings'[id].totalPrice = 2200
                  /\ bookings'[id].status = "completed"
                  /\ cars'[bookings[id].carId].available)
    ]_vars

\* C11 witness: the run has reached its end
C11_Witness ==
  /\ bookings # <<>>
  /\ bookings[1].status = "completed"
  /\ bookings[1].basePrice = 2000
  /\ bookings[1].lateReturnFee = 200
  /\ bookings[1].totalPrice = 2200
  /\ bookings[1].paymentStatus = "completed"
  /\ cars["c1"].available

----------------------------------------------------------------------------
(* Cart variant: POST /api/availability/check over any booking collection *)

MaxAvailBookings == 2

AvailCars ==
  [c1 |-> [name |-> "c1", price12hrs |-> 1500, price24hrs |-> 2500],
   c2 |-> [name |-> "c2", price12hrs |-> 1800, price24hrs |-> 3000]]

\* a morning, an afternoon, the whole day, the next morning
AvailWindows ==
  {CartBody(0, "00:00", 0, "12:00", 12), CartBody(0, "12:00", 1, "00:00", 12),
   CartBody(0, "00:00", 1, "00:00", 24), CartBody(1, "00:00", 1, "12:00", 12)}

BookingStatuses == {"pending", "confirmed", "completed", "cancelled"}

AvailBookings ==
  {[CartBooking("alice", [w EXCEPT !.carId = c] @@ [calculatedPrice |-> 1500])
      EXCEPT !.status = s] :
     c \in DOMAIN AvailCars, w \in AvailWindows, s \in BookingStatuses}

\* the requests: every window for both cars, an unknown car, an empty range
AvailBodies ==
  {[w EXCEPT !.carId = c] : c \in DOMAIN AvailCars \cup {"c0"}, w \in AvailWindows}
    \cup {CartBody(0, "12:00", 0, "12:00", 12)}

AvailableMessage == "Car is available for booking"
UnavailableMessage == "Car is not available for the selected time slot"

Cart_CheckAvailability(body) ==
  LET startDateTime == createDateTime(body.startDate, body.startTime)
      endDateTime == createDateTime(body.endDate, body.endTime)
  IN  /\ reqs' = <<[op |-> "availability", body |-> body]>>
      /\ UNCHANGED <<cars, bookings, notifications, carts, now, notificationFault, gwRefunds, gwOrders>>
      /\ IF body.carId \notin DOMAIN cars
           THEN Respond(404, "Car not found")
         ELSE IF startDateTime >= endDateTime
           THEN Respond(400, "End time must be after start time")
         ELSE IF checkAvailability(body.carId, startDateTime, endDateTime)
           THEN Respond(200, AvailableMessage)
         ELSE Respond(200, UnavailableMessage)

InitAvail ==
  /\ cars = AvailCars
  /\ now = 0
  /\ notificationFault = FALSE
  /\ gwRefunds = <<>>
  /\ bookings \in UNION {[1..n -> AvailBookings] : n \in 0..MaxAvailBookings}
  /\ notifications = EmptyBag
  /\ carts = <<>>
  /\ gwOrders = <<>>
  /\ reqs = <<>>
  /\ res = NoResponse

NextAvail == \E body \in AvailBodies : Cart_CheckAvailability(body)

SpecAvail == InitAvail /\ [][NextAvail]_vars

\* the bookings that hold the car of an answered availability request: same
\* car, status pending or confirmed, window meeting [start, end)
Blocking(body) ==
  {i \in DOMAIN bookings :
     /\ bookings[i].carId = body.carId
     /\ bookings[i].status \in {"pending", "confirmed"}
     /\ createDateTime(body.startDate, body.startTime)
          < createDateTime(bookings[i].endDate, bookings[i].endTime)
     /\ createDateTime(body.endDate, body.endTime)
          > createDateTime(bookings[i].startDate, bookings[i].startTime)}

\* C12: checkAvailability answers false if and only if some pending or
\* confirmed booking of the same car overlaps the requested window; completed
\* and cancelled bookings and bookings of other cars never make it false.
C12_BlockedOnlyByHoldingBookings ==
  (Len(reqs) = 1 /\ res.status = 200) =>
    /\ (res.body = UnavailableMessage) <=> (Blocking(reqs[1].body) # {})
    /\ (\A i \in DOMAIN bookings :
          \/ bookings[i].carId # reqs[1].body.carId
          \/ bookings[i].status \in {"completed", "cancelled"})
         => res.body = AvailableMessage

\* an unavailable answer next to a completed booking of the same window
C12_Witness ==
  /\ Len(reqs) = 1 /\ res.status = 200 /\ res.body = UnavailableMessage
  /\ Len(bookings) = 2
  /\ bookings[1].status = "completed" /\ bookings[2].status = "confirmed"
  /\ bookings[1].carId = reqs[1].body.carId
  /\ bookings[2].carId = reqs[1].body.carId
  /\ CartWindowsOverlap(bookings[1], reqs[1].body)

----------------------------------------------------------------------------
(* Cart variant: hasTimeOverlap applied to any four instants *)

MaxDay == 1

\* the instants createDateTime yields for the dates and times of the model
TimePoints == {createDateTime(d, t) : d \in 0..MaxDay, t \in TimeStrings}

Call(op, args) == [op |-> op, args |-> args]

Apply_hasTimeOverlap ==
  /\ Len(reqs) = 1 /\ reqs[1].op = "hasTimeOverlap"
  /\ LET args == reqs[1].args
     IN  Respond(200, hasTimeOverlap(args[1], args[2], args[3], args[4]))
  /\ UNCHANGED <<cars, bookings, notifications, carts, now, notificationFault, gwRefunds, gwOrders, reqs>>

InitOverlap ==
  /\ cars = CartCars
  /\ bookings = <<>>
  /\ notifications = EmptyBag
  /\ carts = <<>>
  /\ now = 0
  /\ notificationFault = FALSE
  /\ gwRefunds = <<>>
  /\ gwOrders = <<>>
  /\ reqs \in {<<Call("hasTimeOverlap", <<s1, e1, s2, e2>>)>> :
                 s1 \in TimePoints, e1 \in TimePoints,
                 s2 \in TimePoints, e2 \in TimePoints}
  /\ res = NoResponse

NextOverlap == Apply_hasTimeOverlap

SpecOverlap == InitOverlap /\ [][NextOverlap]_vars

\* C13: hasTimeOverlap(s1, e1, s2, e2) is true exactly when s1 < e2 and
\* e1 > s2, gives the same answer with the two intervals exchanged, and is
\* false for back-to-back windows (e1 = s2).
C13_HalfOpenOverlap ==
  res.status = 200 =>
    LET s1 == reqs[1].args[1]
        e1 == reqs[1].args[2]
        s2 == reqs[1].args[3]
        e2 == reqs[1].args[4]
    IN  /\ res.body <=> (s1 < e2 /\ e1 > s2)
        /\ res.body <=> hasTimeOverlap(s2, e2, s1, e1)
        /\ (e1 = s2) => ~res.body

\* two proper windows, the second starting when the first ends, answered
C13_Witness ==
  /\ res.status = 200
  /\ reqs[1].args[1] < reqs[1].args[2]
  /\ reqs[1].args[2] = reqs[1].args[3]
  /\ reqs[1].args[3] < reqs[1].args[4]
  /\ res.body = FALSE

----------------------------------------------------------------------------
(* Tiered variant: calculatePriceByDuration applied to any car, duration *)
(* and driver flag *)

MaxDuration == 84

Apply_calculatePriceByDuration ==
  /\ Len(reqs) = 1 /\ reqs[1].op = "calculatePriceByDuration"
  /\ LET args == reqs[1].args
     IN  Respond(200, calculatePriceByDuration(args[1], args[2], args[3]))
  /\ UNCHANGED <<cars, bookings, notifications, carts, now, notificationFault, gwRefunds, gwOrders, reqs>>

InitTier ==
  /\ cars = PpCars
  /\ bookings = <<>>
  /\ notifications = EmptyBag
  /\ carts = <<>>
  /\ now = 0
  /\ notificationFault = FALSE
  /\ gwRefunds = <<>>
  /\ gwOrders = <<>>
  /\ reqs \in {<<Call("calculatePriceByDuration", <<cars[c], duration, withDriver>>)>> :
                 c \in DOMAIN cars, duration \in 1..MaxDuration, withDriver \in BOOLEAN}
  /\ res = NoResponse

NextTier == Apply_calculatePriceByDuration

SpecTier == InitTier /\ [][NextTier]_vars

\* the number of started 24-hour units in a duration
Days(duration) == CHOOSE n \in 0..duration : 24 * n >= duration /\ 24 * (n - 1) < duration

\* C14: basePrice is the car's tier price for a duration of exactly 12, 24,
\* 36, 48, 60 or 72 hours, and price24hr times the number of started 24-hour
\* units for every other duration (30 hours cost two price24hr).
C14_TierOrWholeDays ==
  res.status = 200 =>
    LET car == reqs[1].args[1]
        duration == reqs[1].args[2]
    IN  /\ duration = 12 => res.body.basePrice = car.pricing.price12hr
        /\ duration = 24 => res.body.basePrice = car.pricing.price24hr
        /\ duration = 36 => res.body.basePrice = car.pricing.price36hr
        /\ duration = 48 => res.body.basePrice = car.pricing.price48hr
        /\ duration = 60 => res.body.basePrice = car.pricing.price60hr
        /\ duration = 72 => res.body.basePrice = car.pricing.price72hr
        /\ duration \notin {12, 24, 36, 48, 60, 72}
             => res.body.basePrice = car.pricing.price24hr * Days(duration)
        /\ duration = 30 => res.body.basePrice = 2 * car.pricing.price24hr

\* thirty hours priced as two days
C14_Witness ==
  /\ res.status = 200
  /\ reqs[1].args[2] = 30
  /\ res.body.basePrice = 2 * reqs[1].args[1].pricing.price24hr

\* C15: driverCharges is driverChargesPerDay times the number of started
\* 24-hour units when a driver is requested and the car has driverAvailable,
\* and 0 in every other case.
C15_DriverChargePerStartedDay ==
  res.status = 200 =>
    LET car == reqs[1].args[1]
        duration == reqs[1].args[2]
        withDriver == reqs[1].args[3]
    IN  res.body.driverCharges =
          IF withDriver /\ car.driverAvailable
          THEN car.driverChargesPerDay * Days(duration) ELSE 0

\* a driver for thirty hours on a car that offers one: two days of charges
C15_Witness ==
  /\ res.status = 200
  /\ reqs[1].args[2] = 30 /\ reqs[1].args[3] /\ reqs[1].args[1].driverAvailable
  /\ res.body.driverCharges = 2 * reqs[1].args[1].driverChargesPerDay
  /\ res.body.driverCharges > 0

----------------------------------------------------------------------------
(* Razorpay variant: the lifecycle of one booking submitted with the *)
(* delivery fields of the form *)

\* homeDelivery as the form sends it, deliveryDistance within and beyond the
\* limit and absent, for one day of the car
DeliveryBodies ==
  {[SubmitBody("c1", 0, 24, TRUE) EXCEPT !.homeDelivery = homeDelivery,
                                         !.deliveryDistance = deliveryDistance] :
     homeDelivery \in {"true", "false", Undefined},
     deliveryDistance \in {3, 7, NoNum}}

NextDelivery ==
  \/ \E u \in Customers, body \in DeliveryBodies :
       Len(bookings) < MaxBookings /\ Rzp_Submit(u, body)
  \/ NextOne

SpecDelivery == InitRzp /\ [][NextDelivery]_vars

\* C16: a submit that creates a booking stores deliveryFee 500 exactly when
\* home delivery is requested and deliveryDistance is at most 5, and 0 in
\* every other case.
C16_DeliveryFeeOnlyWhenRequested ==
  [][ \A u \in Customers, body \in DeliveryBodies :
        (Rzp_Submit(u, body) /\ Len(bookings') = Len(bookings) + 1)
          => bookings'[Len(bookings')].deliveryFee =
               IF /\ body.homeDelivery = "true"
                  /\ body.deliveryDistance # NoNum
                  /\ body.deliveryDistance <= DeliveryMaxDistance
               THEN DeliveryFlatFee ELSE 0 ]_vars

----------------------------------------------------------------------------
(* Tiered variant: POST /api/bookings with every combination of the *)
(* driver and delivery fields *)

PriceBodies ==
  {PpSubmitBody(c, duration, withDriver, homeDelivery, deliveryDistance) :
     c \in DOMAIN PpCars,
     duration \in {d \in 1..MaxDuration : d % DurationUnit = 0},
     withDriver \in {"true", "false"},
     homeDelivery \in {"true", "false"},
     deliveryDistance \in DistanceTexts}

NextPpPrice ==
  \E u \in Customers, body \in PriceBodies :
    Len(bookings) < MaxBookings /\ Pp_Submit(u, body)

SpecPpPrice == InitPp /\ [][NextPpPrice]_vars

\* C17: every booking created by submit has totalPrice = basePrice +
\* driverCharges + deliveryFee for the values stored on it, whatever the
\* withDriver, homeDelivery and deliveryDistance fields of the request.
C17_StoredTotalIsSumOfStoredParts ==
  \A i \in DOMAIN bookings :
    bookings[i].totalPrice =
      bookings[i].basePrice + bookings[i].driverCharges + bookings[i].deliveryFee

\* C18: in the Razorpay variant a booking submitted with home delivery
\* within 5 km is stored with basePrice = pricePerHour x duration and
\* totalPrice = basePrice + 500 (250 per hour for 24 hours: 6000 and 6500).
C18_BasePriceExcludesDeliveryFee ==
  [][ \A u \in Customers, body \in DeliveryBodies :
        (/\ body.homeDelivery = "true"
         /\ body.deliveryDistance # NoNum
         /\ body.deliveryDistance <= DeliveryMaxDistance
         /\ Rzp_Submit(u, body)
         /\ Len(bookings') = Len(bookings) + 1)
          => LET booking == bookings'[Len(bookings')]
             IN  /\ booking.basePrice = cars[body.carId].pricePerHour * body.duration
                 /\ booking.totalPrice = booking.basePrice + DeliveryFlatFee ]_vars

----------------------------------------------------------------------------
(* calculateLateReturnFee applied to any scheduled end, return and rate *)

MaxLateSlots == 20
MaxEarlySlots == 6
TenMinutes == 10 * MinuteMs

HourlyRates == {LateHourlyRate, 50}

Apply_calculateLateReturnFee ==
  /\ Len(reqs) = 1 /\ reqs[1].op = "calculateLateReturnFee"
  /\ LET args == reqs[1].args
     IN  Respond(200, calculateLateReturnFee(args[1], args[2], args[3]))
  /\ UNCHANGED <<cars, bookings, notifications, carts, now, notificationFault, gwRefunds, gwOrders, reqs>>

InitLate ==
  /\ cars = RzpCars
  /\ bookings = <<>>
  /\ notifications = EmptyBag
  /\ carts = <<>>
  /\ now = 0
  /\ notificationFault = FALSE
  /\ gwRefunds = <<>>
  /\ gwOrders = <<>>
  /\ reqs \in {<<Call("calculateLateReturnFee",
                      <<scheduledEndTime, scheduledEndTime + slots * TenMinutes, rate>>)>> :
                 scheduledEndTime \in {12 * HourMs, 24 * HourMs},
                 slots \in (0 - MaxEarlySlots)..MaxLateSlots,
                 rate \in HourlyRates}
  /\ res = NoResponse

NextLate == Apply_calculateLateReturnFee

SpecLate == InitLate /\ [][NextLate]_vars

\* the number of started hours in a span of milliseconds
StartedHours(ms) ==
  CHOOSE n \in 0..(MaxLateSlots + 1) : n * HourMs >= ms /\ (n - 1) * HourMs < ms

\* C19: calculateLateReturnFee is 0 when the return is not after the
\* scheduled end, and otherwise the number of started late hours times the
\* hourly rate: 2 h late at 100 costs 200, 2 h 10 min late costs 300.
C19_LateFeePerStartedHour ==
  res.status = 200 =>
    LET scheduledEndTime == reqs[1].args[1]
        actualReturnTime == reqs[1].args[2]
        hourlyRate == reqs[1].args[3]
        late == actualReturnTime - scheduledEndTime
    IN  /\ actualReturnTime <= scheduledEndTime => res.body = 0
        /\ actualReturnTime > scheduledEndTime
             => res.body = StartedHours(late) * hourlyRate
        /\ (late = 2 * HourMs /\ hourlyRate = 100) => res.body = 200
        /\ (late = 2 * HourMs + TenMinutes /\ hourlyRate = 100) => res.body = 300

\* a return 2 h 10 min late at 100 per hour, charged three hours
C19_Witness ==
  /\ res.status = 200
  /\ reqs[1].args[2] - reqs[1].args[1] = 2 * HourMs + TenMinutes
  /\ reqs[1].args[3] = 100
  /\ res.body = 300

\* C20: complete on an active booking sets status completed, lateReturnFee
\* to the computed late fee, totalPrice to basePrice + driverCharges +
\* deliveryFee + lateFee (the Razorpay schema has no driverCharges),
\* depositStatus refunded and the car's available flag to true.
C20_CompleteRecomputesTotal ==
  [][ \A id \in BookingIds : \A body \in CompleteBodies(id) :
        (/\ id \in DOMAIN bookings
         /\ bookings[id].status = "active"
         /\ Rzp_Complete(id, body))
          => LET lateFee ==
                   calculateLateReturnFee(
                     bookings[id].endTime,
                     IF body.actualReturnTime # NoTime
                     THEN body.actualReturnTime ELSE now,
                     LateHourlyRate)
             IN  /\ bookings'[id].status = "completed"
                 /\ bookings'[id].lateReturnFee = lateFee
                 /\ bookings'[id].totalPrice =
                      bookings'[id].basePrice + bookings'[id].deliveryFee + lateFee
                 /\ bookings'[id].depositStatus = "refunded"
                 /\ cars'[bookings[id].carId].available ]_vars

----------------------------------------------------------------------------
(* Tiered variant: the lifecycle of one booking, with submits that fail *)
(* validation at any time *)

\* every combination of a bad duration, an unknown car, a car without driver
\* support, a driver request and a missing document
ValidationBodies ==
  {[PpSubmitBody(c, duration, withDriver, "false", Undefined)
      EXCEPT !.docsPresent = docsPresent] :
     c \in {"c0", "c1", "c2"}, duration \in {7, 24},
     withDriver \in {"true", "false"}, docsPresent \in BOOLEAN}

\* beyond the bound on bookings, only the submits that create none
NextPpValidate ==
  \/ \E u \in Customers, body \in ValidationBodies :
       Pp_Submit(u, body) /\ bookings' = bookings
  \/ NextPp

SpecPpValidate == InitPp /\ [][NextPpValidate]_vars

\* the validation failures of a submit body in the current state, in the
\* order duration, car exists, car available, driver support, documents
ValidationFailures(body) ==
  <<[fails |-> body.duration % 12 # 0, status |-> 400,
     error |-> "Duration must be in multiples of 12 hours"],
    [fails |-> body.carId \notin DOMAIN cars, status |-> 404,
     error |-> "Car not found"],
    [fails |-> body.carId \in DOMAIN cars /\ ~cars[body.carId].available,
     status |-> 400, error |-> "Car is not available"],
    [fails |-> /\ body.carId \in DOMAIN cars
               /\ body.withDriver = "true"
               /\ ~cars[body.carId].driverAvailable,
     status |-> 400, error |-> "Driver service not available for this car"],
    [fails |-> ~body.docsPresent, status |-> 400,
     error |-> "All documents are required"]>>

\* C21: a submit that fails validation creates no booking and no
\* notification and leaves the cars unchanged, and reports the first failure
\* in the order duration, car exists, car available, driver support,
\* documents.
C21_FailedSubmitChangesNothing ==
  [][ \A u \in Customers, body \in ValidationBodies :
        LET failures == ValidationFailures(body)
            failing == {k \in DOMAIN failures : failures[k].fails}
        IN  (failing # {} /\ Pp_Submit(u, body))
              => LET first == CHOOSE k \in failing : \A j \in failing : k <= j
                 IN  /\ bookings' = bookings
                     /\ notifications' = notifications
                     /\ cars' = cars
                     /\ res'.status = failures[first].status
                     /\ res'.body = failures[first].error ]_vars

\* a submit refused for a car that a paid booking holds
C21_Witness ==
  /\ res.status = 400 /\ res.body = "Car is not available"
  /\ \E id \in DOMAIN bookings :
       bookings[id].status = "paid" /\ ~cars[bookings[id].carId].available

\* C22: a successful submit creates a pending booking and leaves every car
\* unchanged, and a car's available flag goes from true to false only in a
\* step that leaves one of its bookings paid with a stored payment.
C22_SubmitLeavesCarAvailable ==
  [][ /\ \A u \in Customers, body \in SubmitBodies({0, 12 * HourMs}) :
           (Rzp_Submit(u, body) /\ res'.status = 201)
             => /\ Len(bookings') = Len(bookings) + 1
                /\ bookings'[Len(bookings')].status = "pending"
                /\ cars' = cars
      /\ \A c \in DOMAIN cars :
           (cars[c].available /\ ~cars'[c].available)
             => \E id \in DOMAIN bookings :
                  /\ bookings[id].carId = c
                  /\ bookings'[id].status = "paid"
                  /\ bookings'[id].paymentStatus = "completed"
                  /\ bookings'[id].razorpayPaymentId # <<>>
    ]_vars

\* two pending bookings of one car for the same window, the car still
\* available
C22_Witness ==
  /\ Len(bookings) = 2
  /\ bookings[1].status = "pending" /\ bookings[2].status = "pending"
  /\ bookings[1].carId = bookings[2].carId
  /\ WindowsOverlap(bookings[1], bookings[2])
  /\ cars[bookings[1].carId].available
  /\ res.status = 201

C24_DeclineReleasesCar ==
  [][ \A id \in DOMAIN bookings :
        (bookings[id].status = "pending" /\ Rzp_Review(id, "decline", "notes"))
          => /\ bookings'[id].status = "declined"
             /\ bookings'[id].adminNotes = "notes"
             /\ cars'[bookings[id].carId].available
    ]_vars

\* a declined booking next to a paid booking of the same car, the car
\* available again
C24_Witness ==
  /\ res.status = 200 /\ res.body = "Booking declined"
  /\ \E i, j \in DOMAIN bookings :
       /\ bookings[i].status = "declined"
       /\ bookings[j].status = "paid"
       /\ bookings[i].carId = bookings[j].carId
       /\ cars[bookings[i].carId].available

\* C25: start on a paid booking sets its status to active, records
\* vehicleName, vehicleNumber and startOdometer and sets depositStatus to
\* received; paymentStatus, totalPrice and every car stay as they were.
C25_StartRecordsHandover ==
  [][ \A id \in DOMAIN bookings : \A body \in StartBodies :
        (bookings[id].status = "paid" /\ Rzp_Start(id, body))
          => /\ bookings'[id].status = "active"
             /\ bookings'[id].vehicleName = body.vehicleName
             /\ bookings'[id].vehicleNumber = body.vehicleNumber
             /\ bookings'[id].startOdometer = body.startOdometer
             /\ bookings'[id].depositStatus = "received"
             /\ bookings'[id].paymentStatus = bookings[id].paymentStatus
             /\ bookings'[id].totalPrice = bookings[id].totalPrice
             /\ cars' = cars
    ]_vars

\* a started rental: the vehicle handed over, the payment and the hold of
\* the car as the payment left them
C25_Witness ==
  /\ res.status = 200 /\ res.body = "Booking marked as active"
  /\ \E id \in DOMAIN bookings :
       /\ bookings[id].status = "active"
       /\ bookings[id].vehicleName = "Swift"
       /\ bookings[id].startOdometer = 1000
       /\ bookings[id].depositStatus = "received"
       /\ bookings[id].paymentStatus = "completed"
       /\ ~cars[bookings[id].carId].available

\* the outcome of a payment-failure signal for booking id: paymentStatus
\* failed, status still payment_pending, one payment notification for the
\* customer
FailureRecorded(id) ==
  /\ bookings'[id].paymentStatus = "failed"
  /\ bookings'[id].status = "payment_pending"
  /\ notifications' = notifications (+)
       SetToBag({[userId |-> bookings[id].customerId, bookingId |-> id,
                  message |-> <<"payment_failed">>, type |-> "payment"]})

\* C26: a payment-failure signal for a payment_pending booking, the
\* CHECKOUT_ORDER_FAILED webhook or a FAILED result of the status poll, sets
\* paymentStatus to failed, leaves status at payment_pending and creates a
\* payment notification for the customer.
C26_FailureKeepsPaymentPending ==
  [][ \A id \in DOMAIN bookings : \A n \in DOMAIN gwOrders :
        (/\ bookings[id].status = "payment_pending"
         /\ bookings[id].merchantOrderId = MerchantOrderId(n)
         /\ OrderState(n) = "FAILED")
          => /\ Pp_Webhook(Hmac("sha256", WebhookCredentials),
                           [type |-> "CHECKOUT_ORDER_FAILED", n |-> n])
                  => FailureRecorded(id)
             /\ Pp_Status(bookings[id].customerId, FALSE, n)
                  => FailureRecorded(id)
    ]_vars

----------------------------------------------------------------------------
(* Razorpay variant: the lifecycle of one booking, with a Notification *)
(* collection that rejects every save from some moment on *)

\* the Notification collection starts rejecting saves
Notification_Fault ==
  /\ ~notificationFault
  /\ notificationFault' = TRUE
  /\ UNCHANGED <<cars, bookings, notifications, carts, now, gwRefunds, gwOrders, reqs, res>>

NextFault ==
  \/ Notification_Fault
  \/ NextOne

SpecFault == InitRzp /\ [][NextFault]_vars

\* what a transition leaves in the Notification collection: one more
\* document, or nothing when the save is rejected
Notified(userId, message, bookingId, type) ==
  notifications' =
    IF notificationFault THEN notifications
    ELSE notifications (+)
           SetToBag({[userId |-> userId, bookingId |-> bookingId,
                      message |-> message, type |-> type]})

C28_CreateOrderOnlyWhenPaymentPending ==
  [][ \A u \in Customers, id \in BookingIds :
        Rzp_CreateOrder(u, id)
          => IF /\ id \in DOMAIN bookings
                /\ bookings[id].customerId = u
                /\ bookings[id].status = "payment_pending"
             THEN /\ res'.status = 200
                  /\ Len(gwOrders') = Len(gwOrders) + 1
                  /\ gwOrders'[Len(gwOrders')].bookingId = id
                  /\ bookings'[id].razorpayOrderId = OrderId(Len(gwOrders'))
                  /\ bookings'[id].status = bookings[id].status
                  /\ bookings'[id].paymentStatus = bookings[id].paymentStatus
                  /\ bookings'[id].totalPrice = bookings[id].totalPrice
             ELSE /\ res'.status \in {400, 403, 404}
                  /\ UNCHANGED <<bookings, gwOrders, cars, notifications>>
    ]_vars

\* an order placed for a booking that still waits for its payment
C28_Witness ==
  /\ res.status = 200 /\ res.body = "order created"
  /\ Len(gwOrders) = 1
  /\ \E id \in DOMAIN bookings :
       /\ bookings[id].status = "payment_pending"
       /\ bookings[id].paymentStatus = "pending"
       /\ bookings[id].razorpayOrderId = OrderId(1)
       /\ gwOrders[1].bookingId = id

----------------------------------------------------------------------------
(* Tiered PhonePe variant: POST /api/payment/refund (admin) *)
(* body: bookingId, amount *)

MaxRefunds == 1

RefundAmounts == {500, 2000}

MerchantRefundId(n) == <<"refund", n>>

\* RefundRequest.builder()...build(): the amount is in paisa
RefundRequest(merchantRefundId, originalMerchantOrderId, amount) ==
  [merchantRefundId |-> merchantRefundId,
   originalMerchantOrderId |-> originalMerchantOrderId,
   amount |-> amount * 100]

\* a refund route that does not look at the stored merchantOrderId
Pp_RefundOn_Unchecked(doc, bookingId, amount) ==
  /\ UNCHANGED <<cars, bookings, notifications, carts, now, notificationFault, gwOrders>>
  /\ IF doc = <<>>
     THEN /\ Respond(404, "Booking not found")
          /\ UNCHANGED gwRefunds
     ELSE /\ gwRefunds' = Append(gwRefunds,
                                 RefundRequest(MerchantRefundId(Len(gwRefunds) + 1),
                                               doc[1].merchantOrderId, amount))
          /\ Respond(200, "Refund initiated successfully")

Pp_RefundOn(doc, bookingId, amount) ==
  /\ UNCHANGED <<cars, bookings, notifications, carts, now, notificationFault, gwOrders>>
  /\ IF doc = <<>>
     THEN /\ Respond(404, "Booking not found")
          /\ UNCHANGED gwRefunds
     ELSE LET booking == doc[1] IN
     IF booking.merchantOrderId = <<>>
     THEN /\ Respond(400, "No payment found for this booking")
          /\ UNCHANGED gwRefunds
     ELSE /\ gwRefunds' = Append(gwRefunds,
                                 RefundRequest(MerchantRefundId(Len(gwRefunds) + 1),
                                               booking.merchantOrderId, amount))
          /\ Respond(200, "Refund initiated successfully")

Pp_Refund(bookingId, amount) ==
  /\ Pp_RefundOn(findById(bookingId), bookingId, amount)
  /\ UNCHANGED reqs

NextRefund ==
  \/ \E id \in BookingIds, amount \in RefundAmounts :
       Len(gwRefunds) < MaxRefunds /\ Pp_Refund(id, amount)
  \/ NextPp

\* the lifecycle of the tiered variant with refunds by the admin
SpecRefund == InitPp /\ [][NextRefund]_vars

\* C29: a refund reaches the gateway only for an existing booking that stores
\* a merchantOrderId, and it then names that id, which is the id of an order
\* placed at the gateway for this booking; a refund for a missing booking or
\* for a booking without merchantOrderId is rejected with 404 or 400 and no
\* refund reaches the gateway. No refund request changes a booking.
C29_RefundNeedsStoredOrderId ==
  [][ \A id \in BookingIds, amount \in RefundAmounts :
        Pp_Refund(id, amount)
          => /\ bookings' = bookings
             /\ IF id \in DOMAIN bookings /\ bookings[id].merchantOrderId # <<>>
                THEN /\ res'.status = 200
                     /\ Len(gwRefunds') = Len(gwRefunds) + 1
                     /\ SubSeq(gwRefunds', 1, Len(gwRefunds)) = gwRefunds
                     /\ LET refund == gwRefunds'[Len(gwRefunds')] IN
                        /\ refund.originalMerchantOrderId = bookings[id].merchantOrderId
                        /\ refund.amount = amount * 100
                        /\ \E n \in DOMAIN gwOrders :
                             /\ gwOrders[n].bookingId = id
                             /\ refund.originalMerchantOrderId = MerchantOrderId(n)
                ELSE /\ res'.status = IF id \in DOMAIN bookings THEN 400 ELSE 404
                     /\ gwRefunds' = gwRefunds
    ]_vars

\* a refund of a paid booking has reached the gateway under its order's id
C29_Witness ==
  /\ res.status = 200 /\ res.body = "Refund initiated successfully"
  /\ Len(gwRefunds) = 1
  /\ \E id \in DOMAIN bookings :
       /\ bookings[id].paymentStatus = "completed"
       /\ gwRefunds[1].originalMerchantOrderId = bookings[id].merchantOrderId

----------------------------------------------------------------------------
(* Cart variant: PUT /api/admin/bookings/:id/status (admin) *)

\* Booking.findByIdAndUpdate(id, { status }): one atomic write of the field
Cart_AdminStatus(id, status) ==
  /\ UNCHANGED <<cars, notifications, carts, now, notificationFault, gwRefunds, gwOrders, reqs>>
  /\ IF id \notin DOMAIN bookings
     THEN Respond(404, "Booking not found") /\ UNCHANGED bookings
     ELSE /\ bookings' = [bookings EXCEPT ![id].status = status]
          /\ Respond(200, "Booking status updated")

NextCancel ==
  \/ \E id \in BookingIds, status \in BookingStatuses : Cart_AdminStatus(id, status)
  \/ NextCart

\* the cart variant with the admin's status updates
SpecCancel == InitCart /\ [][NextCancel]_vars

\* C30: a cancel by the booking's own user moves a pending or confirmed
\* booking to cancelled and changes nothing else; a cancel of a completed or
\* cancelled booking, of another user's booking or of a missing booking is
\* rejected and leaves every booking as it was.
C30_CancelFromNonTerminalOnly ==
  [][ \A u \in Customers, id \in BookingIds :
        Cart_Cancel(u, id)
          => IF /\ id \in DOMAIN bookings
                /\ bookings[id].userId = u
                /\ bookings[id].status \in {"pending", "confirmed"}
             THEN /\ res'.status = 200
                  /\ bookings' = [bookings EXCEPT ![id].status = "cancelled"]
             ELSE /\ bookings' = bookings
                  /\ res'.status =
                       IF id \in DOMAIN bookings /\ bookings[id].userId = u
                       THEN 400 ELSE 404
    ]_vars

\* a confirmed (paid) booking has been cancelled by its user
C30_Witness ==
  /\ res.status = 200 /\ res.body = "Booking cancelled"
  /\ \E id \in DOMAIN bookings :
       /\ bookings[id].status = "cancelled"
       /\ bookings[id].paymentId # <<>>

----------------------------------------------------------------------------
(* Timestamps of a booking *)

\* C31: every step that changes a stored booking leaves its updatedAt at the
\* time of the step, and no step changes its createdAt.
C31_EveryChangeBumpsUpdatedAt ==
  [][ \A id \in DOMAIN bookings :
        bookings'[id] # bookings[id]
          => /\ bookings'[id].updatedAt = now
             /\ bookings'[id].createdAt = bookings[id].createdAt
    ]_vars

----------------------------------------------------------------------------
(* Razorpay variant: POST /api/bookings with the duration field as text *)

\* the duration field of the multipart form: decimal digits, the same number
\* in exponent notation, an empty field, digits followed by a unit
DurationTexts == {"12", "1.2e1", "", "7", "12h"}

FormBodies ==
  {[SubmitBody("c1", 0, 12, TRUE) EXCEPT !.duration = text] : text \in DurationTexts}

Rzp_SubmitText(u, body) ==
  Rzp_SubmitOn(u, body, ToNumber(body.duration), parseInt(body.duration))

NextForm ==
  \/ \E body \in FormBodies :
       Len(bookings) < MaxBookings /\ Rzp_SubmitText("alice", body)
  \/ NextOne

\* one booking, submitted with any text in the duration field
SpecForm == InitRzp /\ [][NextForm]_vars

\* C32: after every step every booking has endTime = startTime + duration
\* hours, and no step changes the startTime, duration or endTime of a booking
\* that exists.
C32_EndTimeIsStartPlusDuration ==
  [][ /\ \A id \in DOMAIN bookings' :
           bookings'[id].endTime
             = bookings'[id].startTime + bookings'[id].duration * HourMs
      /\ \A id \in DOMAIN bookings :
           /\ bookings'[id].startTime = bookings[id].startTime
           /\ bookings'[id].duration = bookings[id].duration
           /\ bookings'[id].endTime = bookings[id].endTime
    ]_vars

----------------------------------------------------------------------------
(* Status and payment status *)

\* C33: a booking is paid, active or completed exactly when its
\* paymentStatus is completed; a payment failure that arrives after the
\* payment therefore leaves paymentStatus as it is.
C33_PaidIffPaymentCompleted ==
  \A id \in DOMAIN bookings :
    bookings[id].status \in {"paid", "active", "completed"}
      <=> bookings[id].paymentStatus = "completed"

----------------------------------------------------------------------------
(* The car of a paid booking *)

\* C34: a car with a booking in status paid or active is not available,
\* whatever happened to the other bookings of the car.
C34_PaidCarIsHeld ==
  \A id \in DOMAIN bookings :
    bookings[id].status \in {"paid", "active"}
      => ~cars[bookings[id].carId].available

----------------------------------------------------------------------------
(* Cart variant: terminal statuses *)

\* C35: no step changes the status of a booking that is completed or
\* cancelled.
C35_TerminalStatusIsFinal ==
  [][ \A id \in DOMAIN bookings :
        bookings[id].status \in {"completed", "cancelled"}
          => bookings'[id].status = bookings[id].status
    ]_vars

----------------------------------------------------------------------------
(* Razorpay variant: the duration of a submitted booking *)

\* half a day, a day, no time at all, a negative half day, and two durations
\* that are no multiple of 12
DurationBodies ==
  {SubmitBody("c1", 0, duration, TRUE) : duration \in {12, 24, 0, -12, 7, -7}}

NextDuration ==
  \/ \E body \in DurationBodies :
       Len(bookings) < MaxBookings /\ Rzp_Submit("alice", body)
  \/ NextOne

\* one booking, submitted with any of the durations
SpecDuration == InitRzp /\ [][NextDuration]_vars

\* C36: after every step every booking has a duration that is a positive
\* multiple of 12 and an endTime after its startTime, and a submit with a
\* duration of 0 or less is rejected and creates no booking.
C36_DurationIsPositiveMultipleOf12 ==
  [][ /\ \A id \in DOMAIN bookings' :
           /\ bookings'[id].duration > 0
           /\ bookings'[id].duration % DurationUnit = 0
           /\ bookings'[id].endTime > bookings'[id].startTime
      /\ \A body \in DurationBodies :
           (body.duration <= 0 /\ Rzp_Submit("alice", body))
             => res'.status = 400 /\ bookings' = bookings
    ]_vars

----------------------------------------------------------------------------
(* Razorpay variant: review and complete when booking.save() rejects *)
(* The handlers await booking.save() last; a rejection goes to the catch   *)
(* block, which answers 500. What ran before the save has happened.        *)

Rzp_ReviewSaveRejected(id, action, adminNotes) ==
  /\ findById(id) # <<>>
  /\ LET booking == findById(id)[1] IN
     /\ ~Rzp_ReviewRejected(booking)
     /\ action \in {"accept", "decline"}
     /\ IF action = "accept"
        THEN UNCHANGED cars
        ELSE setAvailable(booking.carId, TRUE)
     /\ createNotification(booking.customerId,
                           IF action = "accept" THEN <<"accepted">> ELSE <<"declined">>,
                           id, "booking_update")
  /\ Respond(500, "save rejected")
  /\ UNCHANGED <<bookings, carts, now, notificationFault, gwRefunds, gwOrders, reqs>>

Rzp_CompleteSaveRejected(id, body) ==
  /\ findById(id) # <<>>
  /\ LET booking == findById(id)[1]
         returnTime == IF body.actualReturnTime # NoTime
                       THEN body.actualReturnTime ELSE now
         lateFee == calculateLateReturnFee(booking.endTime, returnTime, LateHourlyRate)
         lateHours == IF lateFee > 0
                      THEN CeilDiv(returnTime - booking.endTime, HourMs) ELSE 0
         message == IF lateFee > 0
                    THEN <<"completed", "late", lateFee, lateHours>>
                    ELSE <<"completed">>
     IN  /\ ~Rzp_CompleteRejected(booking)
         /\ setAvailable(booking.carId, TRUE)
         /\ createNotification(booking.customerId, message, id, "booking_update")
  /\ Respond(500, "save rejected")
  /\ UNCHANGED <<bookings, carts, now, notificationFault, gwRefunds, gwOrders, reqs>>

NextSaveFault ==
  \/ \E id \in BookingIds, action \in {"accept", "decline"} :
       NotifRoom(MaxNotifications) /\ Rzp_ReviewSaveRejected(id, action, "notes")
  \/ \E id \in BookingIds : \E body \in CompleteBodies(id) :
       NotifRoom(MaxNotifications) /\ Rzp_CompleteSaveRejected(id, body)
  \/ NextOne

\* one booking, with saves of the booking that may reject
SpecSaveFault == InitRzp /\ [][NextSaveFault]_vars

\* C37: an accept, decline or complete whose booking.save() rejects leaves
\* the notifications and the car's available flag as they were.
C37_RejectedSaveLeavesNoEffect ==
  [][ \A id \in BookingIds :
        /\ \A action \in {"accept", "decline"} :
             Rzp_ReviewSaveRejected(id, action, "notes")
               => notifications' = notifications /\ cars' = cars
        /\ \A body \in CompleteBodies(id) :
             Rzp_CompleteSaveRejected(id, body)
               => notifications' = notifications /\ cars' = cars
    ]_vars

----------------------------------------------------------------------------
(* Cart variant: checkout *)

====
